---- MODULE Spec2Model ----
(***************************************************************************)
(* A model of PixivSync.py: the SyncDB record store, the include/exclude   *)
(* filter, update_list (catalog discovery), fetch_images (the download     *)
(* scheduler) and _remove_illust.                                          *)
(*                                                                         *)
(* Five specifications share this module:                                  *)
(*   Spec        the command line tool: a sequence of sync / remove /      *)
(*               remove_excluded commands against a remote catalog and a   *)
(*               download directory;                                       *)
(*   SpecFilter  is_illust_excluded applied to bounded inputs;             *)
(*   SpecStore   SyncDB.save with its backup rotation, step by step;       *)
(*   SpecLock    threads calling the operations of one SyncDB;             *)
(*   SpecPool    the worker threads of fetch_images, lock by lock.         *)
(* Each specification leaves the variables of the others at their initial  *)
(* values.                                                                 *)
(***************************************************************************)
EXTENDS Naturals, Integers, Sequences, FiniteSets, TLC

VARIABLES
    \* ---- Spec: the tool ----
    config,        \* the loaded YAML configuration
    token,         \* TRUE iff the store holds a complete auth token (api.user_id set)
    remote_rev,    \* revision of the remote catalog (it may change under the tool)
    illusts,       \* SyncDB.data['illusts'] of the running command
    key_order,     \* the insertion order of the keys of data['illusts']
    db_file,       \* the 'illusts' document in the store file on disk
    files,         \* image files that exist under download.dir
    dirs,          \* directories that exist under download.dir
    pc,            \* position of the running command
    runs,          \* number of commands started so far
    opts,          \* options of the running command
    author_idx,    \* update_list: index into config.authors
    offset,        \* update_list: offset of the next user_illusts request
    fav_idx,       \* update_list: index into config.favourites
    max_bookmark_id, \* update_list: cursor of the next bookmark request
    new_counter,   \* update_list: new illusts of the current listing
    exc,           \* the exception that ended update_list, or "none"
    image_jobs,    \* fetch_images: the sorted job list
    job_state,     \* fetch_images: the state of every job
    counter,       \* fetch_images: counter[0]
    hist,          \* history of the runs (for the properties only)
    \* ---- SpecFilter ----
    f_config,      \* the config handed to is_illust_excluded
    f_illust,      \* the illust handed to is_illust_excluded
    f_result,      \* <<>>, or <<b>> once the call has returned b
    \* ---- SpecStore ----
    store_data,    \* revision of SyncDB.data in memory
    store_file,    \* the file at SyncDB.path: <<>> or <<content>>
    store_backups, \* backup files: timestamp -> content
    save_pc,       \* position inside save()
    save_arg,      \* max_backup of the running save()
    save_hist,     \* history of the saves (for the properties only)
    \* ---- SpecLock ----
    lk_data,       \* SyncDB.data['illusts'], shared by the threads
    lk_owner,      \* the thread that holds SyncDB.lock, or 0
    lk_depth,      \* how many times its owner has acquired SyncDB.lock
    lk_pc,         \* thread -> position inside its call
    lk_op,         \* thread -> the call it is in
    lk_tmp,        \* thread -> the local values of its call
    lk_file,       \* what the last save() wrote: <<>> or <<document>>
    lk_ghost,      \* the document of the calls run one at a time
    lk_hist,       \* history of the calls (for the properties only)
    \* ---- SpecPool ----
    p_njobs,       \* len(image_jobs)
    p_next,        \* the next job the pool hands to a worker
    p_pc,          \* worker -> position inside f_download
    p_job,         \* worker -> the job it runs
    p_tmp,         \* worker -> counter[0] as it read it
    p_flock,       \* the worker that holds f_lock, or 0
    p_slock,       \* <<owner, depth>> of sync_db.lock
    p_counter,     \* counter[0]
    p_fetched,     \* the jobs whose image is marked fetched
    p_hist         \* history of the jobs (for the properties only)

mainVars == <<config, token, remote_rev, illusts, key_order, db_file, files, dirs, pc, runs,
              opts, author_idx, offset, fav_idx, max_bookmark_id, new_counter,
              exc, image_jobs, job_state, counter, hist>>
filterVars == <<f_config, f_illust, f_result>>
storeVars == <<store_data, store_file, store_backups, save_pc, save_arg, save_hist>>
lockVars == <<lk_data, lk_owner, lk_depth, lk_pc, lk_op, lk_tmp, lk_file, lk_ghost, lk_hist>>
poolVars == <<p_njobs, p_next, p_pc, p_job, p_tmp, p_flock, p_slock, p_counter,
              p_fetched, p_hist>>
vars == <<mainVars, filterVars, storeVars, lockVars, poolVars>>

\* Python's None.
None == "None"

\* The empty dict.
EmptyDict == <<>>

(***************************************************************************)
(* FilterPolicy: is_set_intersect, is_illust_excluded                      *)
(***************************************************************************)

\* any(i in b for i in a): a is a list, b a collection used as a set.
is_set_intersect(a, b) == \E i \in 1..Len(a) : a[i] \in b

\* info['authors']: [illust[k] for k in ('author_id', 'author_name') if k in illust]
InfoAuthors(illust) ==
    (IF "author_id" \in DOMAIN illust THEN <<illust["author_id"]>> ELSE <<>>)
    \o (IF "author_name" \in DOMAIN illust THEN <<illust["author_name"]>> ELSE <<>>)

\* info['tags']: for every tag, its 'name' and its 'translation' when present.
RECURSIVE TagFacts(_)
TagFacts(tags) ==
    IF tags = <<>> THEN <<>>
    ELSE LET tag == Head(tags)
         IN (IF "name" \in DOMAIN tag THEN <<tag["name"]>> ELSE <<>>)
            \o (IF "translation" \in DOMAIN tag THEN <<tag["translation"]>> ELSE <<>>)
            \o TagFacts(Tail(tags))

InfoTags(illust) ==
    TagFacts(IF "tags" \in DOMAIN illust THEN illust["tags"] ELSE <<>>)

\* config.get(key, {}) restricted to the keys of info.
RulesOf(cfg, key, info) ==
    LET all == IF key \in DOMAIN cfg THEN cfg[key] ELSE EmptyDict
    IN [k \in DOMAIN info \cap DOMAIN all |-> all[k]]

\* A plausible slip: a passed include rule returns "not excluded" at once, so
\* that the exclude rules are never looked at.
is_illust_excluded_include_wins(cfg, illust) ==
    LET info == [authors |-> InfoAuthors(illust), tags |-> InfoTags(illust)]
        includes == RulesOf(cfg, "includes", info)
        excludes == RulesOf(cfg, "excludes", info)
    IN IF DOMAIN includes # {}
       THEN ~ \E k \in DOMAIN includes : is_set_intersect(info[k], includes[k])
       ELSE /\ DOMAIN excludes # {}
            /\ \E k \in DOMAIN excludes : is_set_intersect(info[k], excludes[k])

is_illust_excluded(cfg, illust) ==
    LET info == [authors |-> InfoAuthors(illust), tags |-> InfoTags(illust)]
        includes == RulesOf(cfg, "includes", info)
        excludes == RulesOf(cfg, "excludes", info)
    IN IF /\ DOMAIN includes # {}
          /\ ~ \E k \in DOMAIN includes : is_set_intersect(info[k], includes[k])
       THEN TRUE
       ELSE IF /\ DOMAIN excludes # {}
               /\ \E k \in DOMAIN excludes : is_set_intersect(info[k], excludes[k])
            THEN TRUE
            ELSE FALSE

(***************************************************************************)
(* Strings. Names are TLA+ strings; where the code compares strings        *)
(* (list.sort on file paths, on backup names) they are compared as Python  *)
(* compares them: by code point, a proper prefix first.                    *)
(***************************************************************************)

\* The code points of the strings that occur in file paths of the model.
CodePoints(s) ==
    CASE s = "/dl"      -> <<47, 100, 108>>
      [] s = "alice"    -> <<97, 108, 105, 99, 101>>
      [] s = "1"        -> <<49>>
      [] s = "2"        -> <<50>>
      [] s = "3"        -> <<51>>
      [] s = "1_p0.png" -> <<49, 95, 112, 48, 46, 112, 110, 103>>
      [] s = "2_p0.png" -> <<50, 95, 112, 48, 46, 112, 110, 103>>
      [] s = "2_p1.png" -> <<50, 95, 112, 49, 46, 112, 110, 103>>

\* Python's a < b on two strings given by their code points.
RECURSIVE StrLess(_, _)
StrLess(a, b) ==
    IF b = <<>> THEN FALSE
    ELSE IF a = <<>> THEN TRUE
    ELSE IF Head(a) # Head(b) THEN Head(a) < Head(b)
    ELSE StrLess(Tail(a), Tail(b))

\* os.path.join(parent, name): a path is kept as the tuple of its components
\* (no component of the model holds a separator or starts with one).
PathJoin(parent, name) == Append(parent, name)

\* os.path.split(path)[0]
ParentOf(path) == SubSeq(path, 1, Len(path) - 1)

\* The path as the string the code sorts by: the components joined by "/".
RECURSIVE PathString(_)
PathString(path) ==
    IF Len(path) = 1 THEN CodePoints(path[1])
    ELSE PathString(ParentOf(path)) \o <<47>> \o CodePoints(path[Len(path)])

\* os.path.abspath(config['download.dir'])
download_dir == <<"/dl">>

(***************************************************************************)
(* The remote catalog (pixivpy's AppPixivAPI), as seen through             *)
(* user_illusts, user_bookmarks_illust and download.  The catalog has two  *)
(* revisions: between them an illust is retitled, an author uploads an     *)
(* item that cannot be extracted, and the user bookmarks one more illust.  *)
(***************************************************************************)

\* Page size of the provider's listings.
PageSize == 2

\* A url is kept as the sequence of its "/"-separated segments.
Url(dir, name) == <<"https:", "", "i.pximg.net", dir, name>>

\* The raw item the provider returns for illust n at revision rev.
RawIllust(n, rev) ==
    CASE n = 1 ->
           [id |-> 1, title |-> IF rev = 0 THEN "one" ELSE "one (edited)",
            create_date |-> "2020-01-01", user |-> [id |-> 1, name |-> "alice"],
            tags |-> <<[name |-> "cat", translated_name |-> None]>>,
            width |-> 100, height |-> 200,
            meta_single_page |-> [original_image_url |-> Url("a", "1_p0.png")],
            meta_pages |-> <<>>]
      [] n = 2 ->
           [id |-> 2, title |-> "two",
            create_date |-> "2020-01-02", user |-> [id |-> 1, name |-> "alice"],
            tags |-> <<[name |-> "nsfw", translated_name |-> "r18"],
                       [name |-> "", translated_name |-> "empty"]>>,
            width |-> 100, height |-> 200,
            meta_single_page |-> EmptyDict,
            meta_pages |-> <<[image_urls |-> [original |-> Url("b", "2_p0.png")]],
                             [image_urls |-> [original |-> Url("b", "2_p1.png")]]>>]
      [] n = 3 ->
           \* another author with the same display name, whose image url
           \* ends in the same segment as illust 1's
           [id |-> 3, title |-> "three",
            create_date |-> "2020-01-03", user |-> [id |-> 2, name |-> "alice"],
            tags |-> <<[name |-> "cat", translated_name |-> None]>>,
            width |-> 100, height |-> 200,
            meta_single_page |-> [original_image_url |-> Url("c", "1_p0.png")],
            meta_pages |-> <<>>]
      [] n = 4 ->
           \* an item without 'title': extraction raises KeyError
           [id |-> 4,
            create_date |-> "2020-01-04", user |-> [id |-> 1, name |-> "alice"],
            tags |-> <<>>, width |-> 100, height |-> 200,
            meta_single_page |-> [original_image_url |-> Url("d", "4_p0.png")],
            meta_pages |-> <<>>]

\* The illusts of an author, newest first.
AuthorListing(author_id, rev) ==
    CASE author_id = "1" -> IF rev = 0 THEN <<2, 1>> ELSE <<4, 2, 1>>
      [] author_id = "2" -> <<3>>
      [] OTHER -> <<>>

\* api.user_illusts(author_id, offset=offset)['illusts']: the items from
\* offset on, at most PageSize of them.
UserIllustsPage(author_id, off, rev) ==
    LET all == AuthorListing(author_id, rev)
        last == IF off + PageSize < Len(all) THEN off + PageSize ELSE Len(all)
    IN [i \in 1..(IF last > off THEN last - off ELSE 0) |-> RawIllust(all[off + i], rev)]

\* The user's bookmarks of a visibility class, newest first, as
\* <<bookmark id, illust>>.
BookmarkListing(fav, rev) ==
    CASE fav = "public"  -> IF rev = 0 THEN <<<<30, 2>>, <<20, 1>>>>
                            ELSE <<<<40, 3>>, <<30, 2>>, <<20, 1>>>>
      [] fav = "private" -> <<<<5, 3>>>>
      [] OTHER -> <<>>

\* An optional bookmark cursor: <<>> for None, <<n>> for the id n.
NoCursor == <<>>

\* A url is kept as the sequence of its query parameters; a missing
\* next_url (None) is the empty sequence, falsy like None.
NoUrl == <<>>

\* api.user_bookmarks_illust(user_id, restrict=fav, max_bookmark_id=cursor):
\* the bookmarks with an id up to the cursor, at most PageSize of them, and a
\* next_url naming the first bookmark id that is left.  The 'private'
\* listing always sends a next link, one that carries no max_bookmark_id.
UserBookmarksPage(fav, cursor, rev) ==
    LET all == BookmarkListing(fav, rev)
        from == SelectSeq(all, LAMBDA e : cursor = NoCursor \/ e[1] <= cursor[1])
        n == IF Len(from) < PageSize THEN Len(from) ELSE PageSize
    IN [illusts |-> [i \in 1..n |-> RawIllust(from[i][2], rev)],
        next_url |-> IF fav = "private" /\ n > 0
                     THEN <<<<"restrict", "private">>, <<"offset", 30>>>>
                     ELSE IF Len(from) > n
                     THEN <<<<"restrict", fav>>, <<"max_bookmark_id", from[n + 1][1]>>>>
                     ELSE NoUrl]

(***************************************************************************)
(* SyncDB: the nested collection 'illusts'                                 *)
(***************************************************************************)

\* SyncDB.get_illust(illust_id, default)
get_illust(db, illust_id, default) ==
    IF illust_id \in DOMAIN db THEN db[illust_id] ELSE default

\* dict.get(key, default)
Get(d, key, default) == IF key \in DOMAIN d THEN d[key] ELSE default

\* A plausible slip: the update replaces the entry instead of merging into it.
update_dict_replace(db, id, val) ==
    [k \in DOMAIN db \cup {id} |-> IF k = id THEN val ELSE db[k]]

\* SyncDB._update_dict: merge val into the entry, or insert a copy of it.
update_dict(db, id, val) ==
    IF id \in DOMAIN db
    THEN [db EXCEPT ![id] = val @@ db[id]]
    ELSE (id :> val) @@ db

\* The key order of the dict after _update_dict.
update_order(db, order, id) == IF id \in DOMAIN db THEN order ELSE Append(order, id)

\* A plausible slip: the flag is set on every image of the illust.
set_illust_fetched_all(db, illust_id, image_id, fetched) ==
    [db EXCEPT ![illust_id]["images"] =
        [i \in 1..Len(@) |-> ("fetched" :> fetched) @@ @[i]]]

\* SyncDB.set_illust_fetched(illust_id, image_id, fetched); image_id counts from 0.
set_illust_fetched(db, illust_id, image_id, fetched) ==
    [db EXCEPT ![illust_id]["images"][image_id + 1] = ("fetched" :> fetched) @@ @]

(***************************************************************************)
(* extract_illust_data                                                     *)
(***************************************************************************)

\* filter_dict: drop the falsy values (None, the empty string).
filter_dict(d) ==
    LET keep == {k \in DOMAIN d : d[k] # None /\ d[k] # ""}
    IN [k \in keep |-> d[k]]

RECURSIVE get_tags(_)
get_tags(raw_tags) ==
    IF raw_tags = <<>> THEN <<>>
    ELSE LET t == Head(raw_tags)
             t_name == Get(t, "name", None)
         IN IF t_name = None \/ t_name = ""
            THEN get_tags(Tail(raw_tags))
            ELSE <<filter_dict([name |-> t_name,
                                translation |-> Get(t, "translated_name", None)])>>
                 \o get_tags(Tail(raw_tags))

\* The keys extract_illust_data subscripts: a missing one raises KeyError.
ExtractRaises(raw) ==
    ~ ({"meta_single_page", "meta_pages", "id", "title", "create_date", "user",
        "width", "height"} \subseteq DOMAIN raw)

\* extract_illust_data(illust), for an item on which it does not raise.  The
\* final test, any(not v for v in r), runs over the keys of r, none of which
\* is empty, so it never raises.
extract_illust_data(raw) ==
    LET p_data == raw["meta_single_page"]
        images == IF DOMAIN p_data # {}
                  THEN <<[url |-> p_data["original_image_url"]]>>
                  ELSE [i \in 1..Len(raw["meta_pages"]) |->
                           [url |-> raw["meta_pages"][i]["image_urls"]["original"]]]
    IN [id |-> ToString(raw["id"]),
        title |-> raw["title"],
        create_time |-> raw["create_date"],
        author_id |-> ToString(raw["user"]["id"]),
        author_name |-> raw["user"]["name"],
        tags |-> get_tags(Get(raw, "tags", <<>>)),
        width |-> raw["width"],
        height |-> raw["height"],
        images |-> images]

(***************************************************************************)
(* The configurations of the model                                         *)
(***************************************************************************)

\* An author reference is kept as the sequence of the pieces the patterns
\* tell apart: a prefix and a run of digits, or any other text.
IsDigits(s) == s \in {"1", "2", "3"}

UsersPrefixes == {"http://www.pixiv.net/users/", "https://www.pixiv.net/users/"}

\* AUTHOR_ID_PATTERNS, first match wins: ^(\d+)$, then
\* ^https?://www\.pixiv\.net/users/(\d+)(?:/.*)?
MatchAuthorId(ref) ==
    IF Len(ref) = 1 /\ IsDigits(ref[1]) THEN ref[1]
    ELSE IF Len(ref) = 2 /\ ref[1] \in UsersPrefixes /\ IsDigits(ref[2]) THEN ref[2]
    ELSE None

Configs ==
    { [authors |-> << <<"1">>, <<"https://www.pixiv.net/users/", "2">> >>,
       favourites |-> <<"public", "private">>,
       excludes |-> [tags |-> {"nsfw"}]],
      [authors |-> << <<"1">>, <<"alice">> >>,
       favourites |-> <<"public">>,
       includes |-> [tags |-> {"cat"}]],
      [favourites |-> <<"public", "friends">>],
      [authors |-> << <<"users/1">>, <<"1">> >>,
       includes |-> [authors |-> {"bob"}], excludes |-> [tags |-> {}]] }

\* The user edits the configuration file between two commands: the exclude
\* rule on tags names another tag.
EditedConfig(cfg) == [cfg EXCEPT !["excludes"]["tags"] = {"cat"}]

\* The command lines of sync in the model: --list-only, --fetch-only,
\* --max-bookmark-id.
SyncArgs ==
    { [list_only |-> FALSE, fetch_only |-> FALSE, max_bookmark_id |-> NoCursor],
      [list_only |-> TRUE,  fetch_only |-> FALSE, max_bookmark_id |-> NoCursor],
      [list_only |-> TRUE,  fetch_only |-> FALSE, max_bookmark_id |-> <<20>>],
      [list_only |-> FALSE, fetch_only |-> TRUE,  max_bookmark_id |-> NoCursor] }

\* The argument lists of the remove command ("9" is an unknown id).
RemoveArgs == {<<"1">>, <<"2">>, <<"9", "3">>}

\* Commands per behaviour.
MaxRuns == 3

\* download.workers
NWorkers == 2

(***************************************************************************)
(* update_list                                                             *)
(***************************************************************************)

\* A plausible slip: every listed item is taken as new.
IsKnown_never(db, illust_id) == FALSE

\* "not sync_db.get_illust(illust_id)" is false: the id has a non-empty record.
IsKnown(db, illust_id) == illust_id \in DOMAIN db /\ DOMAIN db[illust_id] # {}

\* A plausible slip: the loop over the page stops after its first item.
StorePage_first_only(cfg, st, page, i) ==
    IF page = <<>> \/ i > 1 THEN st
    ELSE LET raw == page[1]
             illust_id == ToString(raw["id"])
         IN IF IsKnown(st.db, illust_id) THEN st
            ELSE IF ExtractRaises(raw) THEN [st EXCEPT !.raised = TRUE]
            ELSE LET r == extract_illust_data(raw)
                     item == ("_deleted" :> is_illust_excluded(cfg, r)) @@ r
                 IN [db |-> update_dict(st.db, illust_id, item),
                     order |-> update_order(st.db, st.order, illust_id),
                     counter |-> st.counter + 1,
                     raised |-> FALSE]

\* store_illust over the items of a page from item i on.  st is
\* [db, order, counter, raised]; raised is TRUE when extract_illust_data
\* raised on an item: the items after it are not looked at.
RECURSIVE StorePage(_, _, _, _)
StorePage(cfg, st, page, i) ==
    IF i > Len(page) THEN st
    ELSE LET raw == page[i]
             illust_id == ToString(raw["id"])
         IN IF IsKnown(st.db, illust_id) THEN StorePage(cfg, st, page, i + 1)
            ELSE IF ExtractRaises(raw) THEN [st EXCEPT !.raised = TRUE]
            ELSE LET r == extract_illust_data(raw)
                     item == ("_deleted" :> is_illust_excluded(cfg, r)) @@ r
                 IN StorePage(cfg,
                              [db |-> update_dict(st.db, illust_id, item),
                               order |-> update_order(st.db, st.order, illust_id),
                               counter |-> st.counter + 1,
                               raised |-> FALSE],
                              page, i + 1)

\* A plausible slip: the test is inverted, paging stops on the first page
\* that did discover something.
NoNewOnPage_inverted(old_new_counter, new_new_counter) == old_new_counter # new_new_counter

\* "if old_new_counter == new_counter: break"
NoNewOnPage(old_new_counter, new_new_counter) == old_new_counter = new_new_counter

\* re.match(r'.*[?&]max_bookmark_id=(\d+)(?:&|$)', next_url): the cursor as
\* <<n>>, or <<>> when nothing matches.
ParseCursor(next_url) ==
    LET hits == SelectSeq(next_url, LAMBDA q : q[1] = "max_bookmark_id")
    IN IF hits = <<>> THEN NoCursor ELSE <<hits[Len(hits)][2]>>

\* The loop "update _deleted" over get_illust_ids(), from position i on.
RECURSIVE Refiltered(_, _, _, _)
Refiltered(cfg, db, order, i) ==
    IF i > Len(order) THEN db
    ELSE Refiltered(cfg,
                    update_dict(db, order[i],
                                [_deleted |-> is_illust_excluded(cfg, get_illust(db, order[i], EmptyDict))]),
                    order, i + 1)

(***************************************************************************)
(* fetch_images: the job list                                              *)
(***************************************************************************)

\* image_url.rsplit('/', 1)[-1]
LastSegment(url) == url[Len(url)]

\* parent_dir of an illust's images: <download_dir>/<author_name>, and
\* /<illust_id> below it when the illust has more than one image.
IllustDir(illust, illust_id) ==
    LET parent_dir == PathJoin(download_dir, illust["author_name"])
    IN IF Len(Get(illust, "images", <<>>)) > 1
       THEN PathJoin(parent_dir, illust_id)
       ELSE parent_dir

\* The file of image number i (from 1) of an illust.
ImagePath(illust, illust_id, i) ==
    PathJoin(IllustDir(illust, illust_id), LastSegment(illust["images"][i]["url"]))

\* An image gets a job: the illust is not _deleted and the image not fetched.
IsPending(illust, image) ==
    /\ ~ Get(illust, "_deleted", FALSE)
    /\ ~ Get(image, "fetched", FALSE)

\* The jobs of one illust, from image i on.
RECURSIVE IllustJobs(_, _, _)
IllustJobs(illust, illust_id, i) ==
    IF i > Len(illust["images"]) THEN <<>>
    ELSE (IF IsPending(illust, illust["images"][i])
          THEN <<[file_path |-> ImagePath(illust, illust_id, i),
                  image_url |-> illust["images"][i]["url"],
                  illust_id |-> illust_id,
                  image_id |-> i - 1]>>
          ELSE <<>>)
         \o IllustJobs(illust, illust_id, i + 1)

\* The unsorted job list: the loop over get_illust_ids() from position k on.
RECURSIVE CollectJobs(_, _, _)
CollectJobs(db, order, k) ==
    IF k > Len(order) THEN <<>>
    ELSE LET illust == get_illust(db, order[k], EmptyDict)
         IN (IF Get(illust, "_deleted", FALSE) THEN <<>>
             ELSE IllustJobs(illust, order[k], 1))
            \o CollectJobs(db, order, k + 1)

\* Insert job into the sorted list js, after the jobs that are not greater
\* (list.sort is stable).
RECURSIVE InsertJob(_, _)
InsertJob(js, job) ==
    IF js = <<>> THEN <<job>>
    ELSE IF StrLess(PathString(job.file_path), PathString(Head(js).file_path))
    THEN <<job>> \o js
    ELSE <<Head(js)>> \o InsertJob(Tail(js), job)

\* A plausible slip: the list is left in the order it was collected.
SortJobs_unsorted(js) == js

\* image_jobs.sort(key=lambda o: o.file_path)
RECURSIVE SortJobs(_)
SortJobs(js) ==
    IF js = <<>> THEN <<>>
    ELSE InsertJob(SortJobs(SubSeq(js, 1, Len(js) - 1)), js[Len(js)])

\* The job list fetch_images builds from the store.
BuildJobs(db, order) == SortJobs(CollectJobs(db, order, 1))

\* os.makedirs(path, exist_ok=True): the directory and those above it.
MakeDirs(ds, path) == ds \cup {SubSeq(path, 1, n) : n \in 1..Len(path)}

\* path lies in the tree below (or is) the directory d.
IsUnder(path, d) == Len(path) >= Len(d) /\ SubSeq(path, 1, Len(d)) = d

(***************************************************************************)
(* _remove_illust                                                          *)
(***************************************************************************)

\* The loop over the images of one illust from image i on.  st is
\* [db, files, dirs, rm_failed, tree_failed]; failF is the set of files on
\* which os.remove raises.
RECURSIVE RemoveImages(_, _, _, _, _)
RemoveImages(st, illust_id, images, i, failF) ==
    IF i > Len(images) THEN st
    ELSE IF ~ Get(images[i], "fetched", FALSE)
    THEN RemoveImages(st, illust_id, images, i + 1, failF)
    ELSE LET illust == st.db[illust_id]
             file_path == PathJoin(IllustDir(illust, illust_id),
                                   LastSegment(images[i]["url"]))
             exists == file_path \in st.files
             raises == exists /\ file_path \in failF
             is_removed == ~ raises
         IN RemoveImages(
                [st EXCEPT !.files = IF exists /\ ~ raises THEN @ \ {file_path} ELSE @,
                           !.rm_failed = IF raises THEN @ \cup {file_path} ELSE @,
                           !.db = IF is_removed
                                  THEN set_illust_fetched(@, illust_id, i - 1, FALSE)
                                  ELSE @],
                illust_id, images, i + 1, failF)

\* A plausible slip: the record is marked before its files are handled, and
\* the files of a marked record are left alone.
RemoveOne_mark_only(st, illust_id, failF, failD) ==
    IF ~ IsKnown(st.db, illust_id) THEN st
    ELSE [st EXCEPT !.db = update_dict(@, illust_id, [_deleted |-> TRUE])]

\* The body of the loop of _remove_illust for one id.  failD is the set of
\* directories on which shutil.rmtree raises.
RemoveOne(st, illust_id, failF, failD) ==
    IF ~ IsKnown(st.db, illust_id) THEN st
    ELSE LET illust == st.db[illust_id]
             images == Get(illust, "images", <<>>)
             remove_parent_dir == Len(images) > 1
             parent_dir == IllustDir(illust, illust_id)
             s1 == RemoveImages(st, illust_id, images, 1, failF)
             tree == remove_parent_dir /\ parent_dir \in s1.dirs
             raises == tree /\ parent_dir \in failD
             s2 == IF tree /\ ~ raises
                   THEN [s1 EXCEPT !.files = {f \in @ : ~ IsUnder(f, parent_dir)},
                                   !.dirs = {d \in @ : ~ IsUnder(d, parent_dir)}]
                   ELSE IF raises
                   THEN [s1 EXCEPT !.tree_failed = @ \cup {parent_dir}]
                   ELSE s1
         IN [s2 EXCEPT !.db = update_dict(@, illust_id, [_deleted |-> TRUE])]

\* _remove_illust(download_dir, sync_db, illust_ids), from position k on.
RECURSIVE RemoveIllusts(_, _, _, _, _)
RemoveIllusts(st, illust_ids, k, failF, failD) ==
    IF k > Len(illust_ids) THEN st
    ELSE RemoveIllusts(RemoveOne(st, illust_ids[k], failF, failD),
                       illust_ids, k + 1, failF, failD)

\* remove_excluded: the ids that are not _deleted and that the filter excludes.
RECURSIVE ExcludedIds(_, _, _, _)
ExcludedIds(cfg, db, order, k) ==
    IF k > Len(order) THEN <<>>
    ELSE LET illust == get_illust(db, order[k], EmptyDict)
         IN (IF ~ Get(illust, "_deleted", FALSE) /\ is_illust_excluded(cfg, illust)
             THEN <<order[k]>> ELSE <<>>)
            \o ExcludedIds(cfg, db, order, k + 1)

(***************************************************************************)
(* Spec: the commands                                                      *)
(***************************************************************************)

\* The values the variables of the other specifications keep under Spec.
FilterIdle == f_config = EmptyDict /\ f_illust = EmptyDict /\ f_result = <<>>
StoreIdle ==
    /\ store_data = 0 /\ store_file = <<>> /\ store_backups = <<>>
    /\ save_pc = "idle" /\ save_arg = 0 /\ save_hist = <<>>

LockIdle ==
    /\ lk_data = EmptyDict /\ lk_owner = 0 /\ lk_depth = 0
    /\ lk_pc = <<>> /\ lk_op = <<>> /\ lk_tmp = <<>>
    /\ lk_file = <<>> /\ lk_ghost = EmptyDict /\ lk_hist = <<>>
PoolIdle ==
    /\ p_njobs = 0 /\ p_next = 0 /\ p_pc = <<>> /\ p_job = <<>> /\ p_tmp = <<>>
    /\ p_flock = 0 /\ p_slock = <<0, 0>> /\ p_counter = 0
    /\ p_fetched = {} /\ p_hist = <<>>

NoOpts == [cmd |-> "none"]

\* hist records, for the properties only:
\*   prev_sync_ok  the previous command was a sync that ran update_list, no
\*                 remote request of it failed, and neither the catalog nor
\*                 the configuration changed since it started;
\*   cur_sync_ok   the same for the running command, so far;
\*   prev_cursor   the --max-bookmark-id of the previous command;
\*   cfg_changed   the configuration changed since the last re-filter pass;
\*   prev_remove   the ids of the previous command when it was a remove
\*                 in which no deletion failed;
\*   rm_failed, tree_failed  the files and directories whose deletion failed
\*                 in the running remove.
HistInit ==
    [prev_sync_ok |-> FALSE, cur_sync_ok |-> FALSE, prev_cursor |-> NoCursor,
     cfg_changed |-> FALSE, prev_remove |-> <<>>,
     rm_failed |-> {}, tree_failed |-> {}]

\* SyncDB(path) when no file exists: data = {'illusts': {}, 'users': {}}.
Init ==
    /\ config \in Configs
    /\ token \in BOOLEAN
    /\ remote_rev = 0
    /\ illusts = EmptyDict /\ key_order = <<>> /\ db_file = EmptyDict
    /\ files = {} /\ dirs = {}
    /\ pc = "idle" /\ runs = 0 /\ opts = NoOpts
    /\ author_idx = 1 /\ offset = 0 /\ fav_idx = 1
    /\ max_bookmark_id = NoCursor /\ new_counter = 0 /\ exc = "none"
    /\ image_jobs = <<>> /\ job_state = <<>> /\ counter = 0
    /\ hist = HistInit
    /\ FilterIdle /\ StoreIdle /\ LockIdle /\ PoolIdle

listVars == <<author_idx, offset, fav_idx, max_bookmark_id, new_counter, exc>>
fetchVars == <<image_jobs, job_state, counter>>
diskVars == <<files, dirs>>
envVars == <<config, token, remote_rev>>
otherVars == <<filterVars, storeVars, lockVars, poolVars>>

\* The provider's catalog changes (at any moment).
RemoteChange ==
    /\ remote_rev = 0
    /\ remote_rev' = 1
    /\ hist' = [hist EXCEPT !.prev_sync_ok = FALSE, !.cur_sync_ok = FALSE]
    /\ UNCHANGED <<config, token, illusts, key_order, db_file, diskVars, pc, runs,
                   opts, listVars, fetchVars, otherVars>>

\* The user edits the configuration file between two commands.
ConfigEdit ==
    /\ pc = "idle"
    /\ config \in Configs
    /\ "excludes" \in DOMAIN config /\ "tags" \in DOMAIN config["excludes"]
    /\ config' = EditedConfig(config)
    /\ hist' = [hist EXCEPT !.prev_sync_ok = FALSE, !.cfg_changed = TRUE]
    /\ UNCHANGED <<token, remote_rev, illusts, key_order, db_file, diskVars, pc, runs,
                   opts, listVars, fetchVars, otherVars>>

\* The sync command starts: "with SyncDB(...) as sync_db", then update_list
\* unless --fetch-only, then fetch_images unless --list-only.
StartSync(list_only, fetch_only, cursor) ==
    /\ pc = "idle" /\ runs < MaxRuns
    /\ runs' = runs + 1
    /\ opts' = [cmd |-> "sync", list_only |-> list_only, fetch_only |-> fetch_only,
                max_bookmark_id |-> cursor]
    /\ pc' = IF ~ fetch_only THEN "author_next"
             ELSE IF ~ list_only THEN "fetch_build" ELSE "exit"
    /\ author_idx' = 1 /\ offset' = 0 /\ fav_idx' = 1
    /\ max_bookmark_id' = cursor /\ new_counter' = 0 /\ exc' = "none"
    /\ hist' = [hist EXCEPT !.cur_sync_ok = ~ fetch_only,
                            !.prev_sync_ok = @ /\ hist.prev_cursor = cursor]
    /\ UNCHANGED <<envVars, illusts, key_order, db_file, diskVars, fetchVars, otherVars>>

\* The head of "for author_id_or_url in config.get('authors', [])".
AuthorNext ==
    /\ pc = "author_next"
    /\ LET authors == Get(config, "authors", <<>>)
       IN IF author_idx > Len(authors)
          THEN /\ pc' = "fav_next"
               /\ UNCHANGED <<offset, new_counter, exc>>
          ELSE IF MatchAuthorId(authors[author_idx]) = None
          THEN /\ exc' = "ValueError" /\ pc' = "exit"
               /\ UNCHANGED <<offset, new_counter>>
          ELSE /\ offset' = 0 /\ new_counter' = 0 /\ pc' = "author_page"
               /\ UNCHANGED exc
    /\ UNCHANGED <<envVars, illusts, key_order, db_file, diskVars, runs, opts,
                   author_idx, fav_idx, max_bookmark_id, fetchVars, hist, otherVars>>

\* A plausible slip: the failure of one author's listing leaves update_list.
AuthorPageError_fatal ==
    /\ pc = "author_page"
    /\ exc' = "Exception" /\ pc' = "exit"
    /\ hist' = [hist EXCEPT !.cur_sync_ok = FALSE]
    /\ UNCHANGED <<envVars, illusts, key_order, db_file, diskVars, runs, opts,
                   author_idx, offset, fav_idx, max_bookmark_id, new_counter,
                   fetchVars, otherVars>>

\* api.user_illusts fails (an 'error' response, or the request raises): the
\* "except Exception" of this author catches it.
AuthorPageError ==
    /\ pc = "author_page"
    /\ author_idx' = author_idx + 1 /\ pc' = "author_next"
    /\ hist' = [hist EXCEPT !.cur_sync_ok = FALSE]
    /\ UNCHANGED <<envVars, illusts, key_order, db_file, diskVars, runs, opts,
                   offset, fav_idx, max_bookmark_id, new_counter, exc, fetchVars,
                   otherVars>>

\* One pass of the "while True" of an author: a page is listed and stored.
AuthorPage ==
    /\ pc = "author_page"
    /\ LET author_id == MatchAuthorId(config["authors"][author_idx])
           page == UserIllustsPage(author_id, offset, remote_rev)
           st == StorePage(config,
                           [db |-> illusts, order |-> key_order,
                            counter |-> new_counter, raised |-> FALSE],
                           page, 1)
       IN IF page = <<>>
          THEN /\ author_idx' = author_idx + 1 /\ pc' = "author_next"
               /\ UNCHANGED <<illusts, key_order, offset, new_counter>>
          ELSE /\ illusts' = st.db /\ key_order' = st.order
               /\ new_counter' = st.counter
               /\ IF st.raised
                  THEN author_idx' = author_idx + 1 /\ pc' = "author_next"
                       /\ UNCHANGED offset
                  ELSE offset' = offset + Len(page) /\ UNCHANGED <<author_idx, pc>>
    /\ UNCHANGED <<envVars, db_file, diskVars, runs, opts, fav_idx, max_bookmark_id,
                   exc, fetchVars, hist, otherVars>>

\* "if api.user_id:" and the head of "for fav in config.get('favourites', [])".
FavNext ==
    /\ pc = "fav_next"
    /\ LET favs == Get(config, "favourites", <<>>)
       IN IF ~ token \/ fav_idx > Len(favs)
          THEN /\ pc' = "refilter"
               /\ UNCHANGED <<max_bookmark_id, new_counter, exc>>
          ELSE IF favs[fav_idx] \notin {"public", "private"}
          THEN /\ exc' = "ValueError" /\ pc' = "exit"
               /\ UNCHANGED <<max_bookmark_id, new_counter>>
          ELSE /\ max_bookmark_id' = opts.max_bookmark_id /\ new_counter' = 0
               /\ pc' = "fav_page"
               /\ UNCHANGED exc
    /\ UNCHANGED <<envVars, illusts, key_order, db_file, diskVars, runs, opts,
                   author_idx, offset, fav_idx, fetchVars, hist, otherVars>>

\* api.user_bookmarks_illust fails: the exception leaves update_list.
FavPageError ==
    /\ pc = "fav_page"
    /\ exc' = "Exception" /\ pc' = "exit"
    /\ hist' = [hist EXCEPT !.cur_sync_ok = FALSE]
    /\ UNCHANGED <<envVars, illusts, key_order, db_file, diskVars, runs, opts,
                   author_idx, offset, fav_idx, max_bookmark_id, new_counter,
                   fetchVars, otherVars>>

\* One pass of the "while True" of a favourite class.
FavPage ==
    /\ pc = "fav_page"
    /\ LET fav == config["favourites"][fav_idx]
           r == UserBookmarksPage(fav, max_bookmark_id, remote_rev)
           st == StorePage(config,
                           [db |-> illusts, order |-> key_order,
                            counter |-> new_counter, raised |-> FALSE],
                           r.illusts, 1)
           break == /\ fav_idx' = fav_idx + 1 /\ pc' = "fav_next"
                    /\ UNCHANGED <<max_bookmark_id, exc>>
       IN IF r.illusts = <<>>
          THEN break /\ UNCHANGED <<illusts, key_order, new_counter>>
          ELSE /\ illusts' = st.db /\ key_order' = st.order
               /\ new_counter' = st.counter
               /\ IF st.raised
                  THEN exc' = "KeyError" /\ pc' = "exit"
                       /\ UNCHANGED <<fav_idx, max_bookmark_id>>
                  ELSE IF NoNewOnPage(new_counter, st.counter)
                  THEN break
                  ELSE IF r.next_url # NoUrl
                  THEN IF ParseCursor(r.next_url) # NoCursor
                       THEN /\ max_bookmark_id' = ParseCursor(r.next_url)
                            /\ UNCHANGED <<fav_idx, pc, exc>>
                       ELSE break
                  ELSE UNCHANGED <<fav_idx, max_bookmark_id, pc, exc>>
    /\ UNCHANGED <<envVars, db_file, diskVars, runs, opts, author_idx, offset,
                   fetchVars, hist, otherVars>>

\* The loop "update _deleted", and the return to sync.
Refilter ==
    /\ pc = "refilter"
    /\ illusts' = Refiltered(config, illusts, key_order, 1)
    /\ pc' = IF opts.list_only THEN "exit" ELSE "fetch_build"
    /\ hist' = [hist EXCEPT !.cfg_changed = FALSE]
    /\ UNCHANGED <<envVars, key_order, db_file, diskVars, runs, opts, listVars,
                   fetchVars, otherVars>>

(***************************************************************************)
(* fetch_images: the worker pool.  pool.map hands the jobs out in list     *)
(* order (the chunk size is 1 for a list of at most 4 * n_workers jobs);   *)
(* at most n_workers of them are running.  A job is "queued", then, after  *)
(* makedirs and api.download, "downloaded" or "failing", then "done",      *)
(* "failed" or "failed_left" (its file could not be removed).              *)
(***************************************************************************)

Running(js) == {j \in 1..Len(js) : js[j] \in {"downloaded", "failing"}}
Finished(js) == {j \in 1..Len(js) : js[j] \in {"done", "failed", "failed_left"}}
FailedJobs(js) == {j \in 1..Len(js) : js[j] \in {"failed", "failed_left"}}

\* The job list is built and sorted; the pool starts unless the list is empty.
FetchBuild ==
    /\ pc = "fetch_build"
    /\ LET jobs == BuildJobs(illusts, key_order)
       IN /\ image_jobs' = jobs
          /\ job_state' = [j \in 1..Len(jobs) |-> "queued"]
          /\ counter' = Len(jobs)
          /\ pc' = IF jobs = <<>> THEN "exit" ELSE "fetch_run"
    /\ UNCHANGED <<envVars, illusts, key_order, db_file, diskVars, runs, opts,
                   listVars, hist, otherVars>>

\* A worker takes the next job: os.makedirs, then api.download(replace=True),
\* which returns (the file is written), or raises before the file is opened,
\* or raises and leaves a partial file.
JobDownload(j, outcome) ==
    /\ pc = "fetch_run"
    /\ j \in 1..Len(image_jobs) /\ job_state[j] = "queued"
    /\ \A i \in 1..(j - 1) : job_state[i] # "queued"
    /\ Cardinality(Running(job_state)) < NWorkers
    /\ dirs' = MakeDirs(dirs, ParentOf(image_jobs[j].file_path))
    /\ files' = IF outcome \in {"ok", "partial"}
                THEN files \cup {image_jobs[j].file_path} ELSE files
    /\ job_state' = [job_state EXCEPT ![j] = IF outcome = "ok" THEN "downloaded"
                                             ELSE "failing"]
    /\ UNCHANGED <<envVars, illusts, key_order, db_file, pc, runs, opts, listVars,
                   image_jobs, counter, hist, otherVars>>

\* "with f_lock": the counter is decremented and the image marked fetched.
JobComplete(j) ==
    /\ pc = "fetch_run"
    /\ j \in 1..Len(image_jobs) /\ job_state[j] = "downloaded"
    /\ counter' = counter - 1
    /\ illusts' = set_illust_fetched(illusts, image_jobs[j].illust_id,
                                     image_jobs[j].image_id, TRUE)
    /\ job_state' = [job_state EXCEPT ![j] = "done"]
    /\ UNCHANGED <<envVars, key_order, db_file, diskVars, pc, runs, opts, listVars,
                   image_jobs, hist, otherVars>>

\* A plausible slip: the failed job is logged and its file is left in place.
JobCleanup_no_remove(j, removed) ==
    /\ pc = "fetch_run"
    /\ j \in 1..Len(image_jobs) /\ job_state[j] = "failing"
    /\ removed
    /\ job_state' = [job_state EXCEPT ![j] = "failed"]
    /\ UNCHANGED <<envVars, illusts, key_order, db_file, files, dirs, pc, runs, opts,
                   listVars, image_jobs, counter, hist, otherVars>>

\* The "except:" branch: os.remove(job.file_path), whose own failure is
\* swallowed.  removed says whether os.remove succeeds on an existing file.
JobCleanup(j, removed) ==
    /\ pc = "fetch_run"
    /\ j \in 1..Len(image_jobs) /\ job_state[j] = "failing"
    /\ LET file_path == image_jobs[j].file_path
       IN IF file_path \in files
          THEN IF removed
               THEN /\ files' = files \ {file_path}
                    /\ job_state' = [job_state EXCEPT ![j] = "failed"]
               ELSE /\ files' = files
                    /\ job_state' = [job_state EXCEPT ![j] = "failed_left"]
          ELSE /\ removed
               /\ files' = files
               /\ job_state' = [job_state EXCEPT ![j] = "failed"]
    /\ UNCHANGED <<envVars, illusts, key_order, db_file, dirs, pc, runs, opts,
                   listVars, image_jobs, counter, hist, otherVars>>

\* pool.map returns when every job has ended; pool.close(), pool.join().
FetchJoin ==
    /\ pc = "fetch_run"
    /\ Finished(job_state) = 1..Len(image_jobs)
    /\ pc' = "exit"
    /\ UNCHANGED <<envVars, illusts, key_order, db_file, diskVars, runs, opts,
                   listVars, fetchVars, hist, otherVars>>

(***************************************************************************)
(* The remove and remove_excluded commands                                 *)
(***************************************************************************)

RemoveState == [db |-> illusts, files |-> files, dirs |-> dirs,
                rm_failed |-> {}, tree_failed |-> {}]

\* remove: _remove_illust on the ids of the command line.  failF and failD
\* are the files and directories whose deletion raises.
Remove(illust_ids, failF, failD) ==
    /\ pc = "idle" /\ runs < MaxRuns
    /\ runs' = runs + 1
    /\ opts' = [cmd |-> "remove", illust_ids |-> illust_ids]
    /\ LET st == RemoveIllusts(RemoveState, illust_ids, 1, failF, failD)
       IN /\ illusts' = st.db /\ files' = st.files /\ dirs' = st.dirs
          /\ st.rm_failed = failF /\ st.tree_failed = failD
          /\ hist' = [hist EXCEPT !.cur_sync_ok = FALSE,
                                  !.rm_failed = st.rm_failed,
                                  !.tree_failed = st.tree_failed]
    /\ pc' = "exit"
    /\ UNCHANGED <<envVars, key_order, db_file, listVars, fetchVars, otherVars>>

\* remove_excluded: _remove_illust on the ids the filter excludes, unless
\* --simulate.
RemoveExcluded(simulate, failF, failD) ==
    /\ pc = "idle" /\ runs < MaxRuns
    /\ runs' = runs + 1
    /\ opts' = [cmd |-> "remove_excluded", simulate |-> simulate]
    /\ LET delete_ids == ExcludedIds(config, illusts, key_order, 1)
           st == IF simulate THEN RemoveState
                 ELSE RemoveIllusts(RemoveState, delete_ids, 1, failF, failD)
       IN /\ illusts' = st.db /\ files' = st.files /\ dirs' = st.dirs
          /\ st.rm_failed = failF /\ st.tree_failed = failD
          /\ hist' = [hist EXCEPT !.cur_sync_ok = FALSE,
                                  !.rm_failed = st.rm_failed,
                                  !.tree_failed = st.tree_failed]
    /\ pc' = "exit"
    /\ UNCHANGED <<envVars, key_order, db_file, listVars, fetchVars, otherVars>>

\* SyncDB.__exit__: save() writes the document to the store file (the
\* rotation of the backups is followed step by step under SpecStore).
Exit ==
    /\ pc = "exit"
    /\ db_file' = illusts
    /\ pc' = "idle" /\ opts' = NoOpts
    /\ author_idx' = 1 /\ offset' = 0 /\ fav_idx' = 1
    /\ max_bookmark_id' = NoCursor /\ new_counter' = 0 /\ exc' = "none"
    /\ image_jobs' = <<>> /\ job_state' = <<>> /\ counter' = 0
    /\ hist' = [prev_sync_ok |-> hist.cur_sync_ok,
                cur_sync_ok |-> FALSE,
                prev_cursor |-> IF opts.cmd = "sync" THEN opts.max_bookmark_id
                                ELSE NoCursor,
                cfg_changed |-> hist.cfg_changed,
                prev_remove |-> IF /\ opts.cmd = "remove"
                                   /\ hist.rm_failed = {} /\ hist.tree_failed = {}
                                THEN opts.illust_ids ELSE <<>>,
                rm_failed |-> {}, tree_failed |-> {}]
    /\ UNCHANGED <<envVars, illusts, key_order, diskVars, runs, otherVars>>

Next ==
    \/ RemoteChange
    \/ ConfigEdit
    \/ \E args \in SyncArgs :
          StartSync(args.list_only, args.fetch_only, args.max_bookmark_id)
    \/ AuthorNext
    \/ AuthorPageError
    \/ AuthorPage
    \/ FavNext
    \/ FavPageError
    \/ FavPage
    \/ Refilter
    \/ FetchBuild
    \/ \E j \in 1..Len(image_jobs) : \E outcome \in {"ok", "raised", "partial"} :
          JobDownload(j, outcome)
    \/ \E j \in 1..Len(image_jobs) : JobComplete(j)
    \/ \E j \in 1..Len(image_jobs) : \E removed \in BOOLEAN : JobCleanup(j, removed)
    \/ FetchJoin
    \/ \E illust_ids \in RemoveArgs : \E failF \in SUBSET files : \E failD \in SUBSET dirs :
          Remove(illust_ids, failF, failD)
    \/ \E simulate \in BOOLEAN : \E failF \in SUBSET files : \E failD \in SUBSET dirs :
          RemoveExcluded(simulate, failF, failD)
    \/ Exit

Spec == Init /\ [][Next]_vars

(***************************************************************************)
(* SpecFilter: is_illust_excluded applied to bounded inputs                *)
(***************************************************************************)

\* Rule values for 'authors' and 'tags'.
AuthorRules == {{}, {"2"}, {"alice"}}
TagRules == {{"cat"}, {"r18"}, {"nsfw", "dog"}}

\* The 'includes' / 'excludes' dicts tried; 'title' is a key the filter
\* does not know.
RuleDicts ==
    {EmptyDict, [title |-> {"one"}]}
    \cup {[authors |-> a] : a \in AuthorRules}
    \cup {[tags |-> t] : t \in TagRules}
    \cup {[authors |-> a, tags |-> t] : a \in AuthorRules, t \in TagRules}

\* A key of the config is absent ({}) or holds one of the dicts.
OptRules == {{}} \cup {{r} : r \in RuleDicts}

FilterConfig(incl, excl) ==
    [k \in (IF incl = {} THEN {} ELSE {"includes"})
           \cup (IF excl = {} THEN {} ELSE {"excludes"}) |->
        IF k = "includes" THEN CHOOSE r \in incl : TRUE ELSE CHOOSE r \in excl : TRUE]

FilterConfigs == {FilterConfig(incl, excl) : incl \in OptRules, excl \in OptRules}

\* The record d without the key k.
Without(d, k) == [x \in DOMAIN d \ {k} |-> d[x]]

\* The stored illusts tried: the three of the catalog, one without 'tags'
\* and one without 'author_name'.
FilterIllusts ==
    {extract_illust_data(RawIllust(n, 0)) : n \in 1..3}
    \cup {Without(extract_illust_data(RawIllust(1, 0)), "tags"),
          Without(extract_illust_data(RawIllust(2, 0)), "author_name")}

\* The values the variables of Spec keep under the other specifications.
MainIdle ==
    /\ config = EmptyDict /\ token = FALSE /\ remote_rev = 0
    /\ illusts = EmptyDict /\ key_order = <<>> /\ db_file = EmptyDict
    /\ files = {} /\ dirs = {}
    /\ pc = "off" /\ runs = 0 /\ opts = NoOpts
    /\ author_idx = 1 /\ offset = 0 /\ fav_idx = 1
    /\ max_bookmark_id = NoCursor /\ new_counter = 0 /\ exc = "none"
    /\ image_jobs = <<>> /\ job_state = <<>> /\ counter = 0
    /\ hist = HistInit

InitFilter ==
    /\ f_config \in FilterConfigs
    /\ f_illust \in FilterIllusts
    /\ f_result = <<>>
    /\ MainIdle /\ StoreIdle /\ LockIdle /\ PoolIdle

\* One call of is_illust_excluded(config, illust): it assigns to neither
\* argument.
FilterApply ==
    /\ f_result = <<>>
    /\ f_result' = <<is_illust_excluded(f_config, f_illust)>>
    /\ UNCHANGED <<f_config, f_illust, mainVars, storeVars, lockVars, poolVars>>

NextFilter == FilterApply

SpecFilter == InitFilter /\ [][NextFilter]_vars

(***************************************************************************)
(* SpecStore: SyncDB.save, step by step                                    *)
(***************************************************************************)

\* Largest max_backup tried, number of save() calls followed, and the
\* clock readings a save() may take: any of MinStamp..MaxStamp, in any
\* order (the local time of datetime.now() may step back).
MaxK == 3
MaxSaves == 4
MinStamp == 8
MaxStamp == 11

\* Digits of a fixed-width field of strftime: zero padded ('%S' -> "09").
Pad2(n) == <<n \div 10, n % 10>>

\* datetime.now().strftime('%Y%m%d_%H%M%S_%f'): the suffix of the backup
\* name, every field zero padded; the model keeps one two-digit field.
StampName(ts) == Pad2(ts)

\* Python's "<" on two strings of digits.
RECURSIVE NameLess(_, _)
NameLess(a, b) ==
    IF b = <<>> THEN FALSE
    ELSE IF a = <<>> THEN TRUE
    ELSE IF Head(a) # Head(b) THEN Head(a) < Head(b)
    ELSE NameLess(Tail(a), Tail(b))

\* backup_list.sort(): the names in ascending order.
RECURSIVE SortNames(_)
SortNames(names) ==
    IF names = {} THEN <<>>
    ELSE LET least == CHOOSE n \in names : \A m \in names \ {n} : NameLess(n, m)
         IN <<least>> \o SortNames(names \ {least})

\* Python's lst[:n]: a negative n counts from the end.
SlicePrefix(lst, n) ==
    LET stop == IF n >= 0 THEN IF n < Len(lst) THEN n ELSE Len(lst)
                ELSE IF Len(lst) + n > 0 THEN Len(lst) + n ELSE 0
    IN SubSeq(lst, 1, stop)

\* backup_list[:len(backup_list) - max_backup]
OldBackups(names, max_backup) ==
    LET backup_list == SortNames(names)
    IN SlicePrefix(backup_list, Len(backup_list) - max_backup)

\* save_hist records, for the properties only: the number of save() calls
\* that returned, the max_backup values they were given, the names of the
\* backups ever created, whether a backup name was used twice, and the
\* document the last save() that returned wrote (<<>> before the first).
InitStore ==
    /\ store_data = 0 /\ store_file = <<>> /\ store_backups = <<>>
    /\ save_pc = "idle" /\ save_arg = 0
    /\ save_hist = [count |-> 0, ks |-> {}, created |-> {}, distinct |-> TRUE,
                    saved |-> <<>>]
    /\ MainIdle /\ FilterIdle /\ LockIdle /\ PoolIdle

\* Writes to the document between two saves: the content moves on to its
\* next revision.
StoreUpdate ==
    /\ save_pc = "idle" /\ store_data <= save_hist.count
    /\ store_data' = store_data + 1
    /\ UNCHANGED <<store_file, store_backups, save_pc, save_arg, save_hist,
                   mainVars, filterVars, lockVars, poolVars>>

\* save(max_backup) up to the shutil.move of the previous file to its
\* backup name (skipped when no file exists); ts is the clock reading.
SaveMove(max_backup, ts) ==
    /\ save_pc = "idle" /\ save_hist.count < MaxSaves
    /\ save_arg' = max_backup
    /\ IF store_file # <<>>
       THEN /\ store_backups' =
                  [n \in DOMAIN store_backups \cup {StampName(ts)} |->
                      IF n = StampName(ts) THEN store_file[1] ELSE store_backups[n]]
            /\ store_file' = <<>>
            /\ save_hist' = [save_hist EXCEPT
                  !.created = @ \cup {StampName(ts)},
                  !.distinct = @ /\ StampName(ts) \notin save_hist.created]
            /\ save_pc' = "moved"
       ELSE /\ save_pc' = "cleaned"
            /\ UNCHANGED <<store_backups, store_file, save_hist>>
    /\ UNCHANGED <<store_data, mainVars, filterVars, lockVars, poolVars>>

\* "cleanup old backups": list, sort, remove the head of the list.
SaveCleanup ==
    /\ save_pc = "moved"
    /\ LET old == OldBackups(DOMAIN store_backups, save_arg)
           gone == {old[i] : i \in 1..Len(old)}
       IN store_backups' = [n \in DOMAIN store_backups \ gone |-> store_backups[n]]
    /\ save_pc' = "cleaned"
    /\ UNCHANGED <<store_data, store_file, save_arg, save_hist, mainVars, filterVars,
                   lockVars, poolVars>>

\* The write of json.dumps(self.data) to self.path; save() returns.
SaveWrite ==
    /\ save_pc = "cleaned"
    /\ store_file' = <<store_data>>
    /\ save_pc' = "idle"
    /\ save_hist' = [save_hist EXCEPT !.count = @ + 1, !.ks = @ \cup {save_arg},
                                      !.saved = <<store_data>>]
    /\ UNCHANGED <<store_data, store_backups, save_arg, mainVars, filterVars,
                   lockVars, poolVars>>

NextStore ==
    \/ StoreUpdate
    \/ \E max_backup \in 0..MaxK : \E ts \in MinStamp..MaxStamp : SaveMove(max_backup, ts)
    \/ SaveCleanup
    \/ SaveWrite

SpecStore == InitStore /\ [][NextStore]_vars

(***************************************************************************)
(* SpecLock: threads calling update_illust, set_illust_fetched, get_illust *)
(* and save on one SyncDB.  Every call is followed statement by statement; *)
(* lk_ghost is the document of the same calls run one at a time, in the    *)
(* order in which they take the lock.                                      *)
(***************************************************************************)

\* Number of threads and of calls each of them makes.
NThreads == 2
MaxCalls == 2

Threads == 1..NThreads

\* The calls tried, all on illust "1"; val_keys is the order of val's keys.
LockCalls ==
    { [op |-> "update", id |-> "1", val |-> [_deleted |-> TRUE],
       val_keys |-> <<"_deleted">>],
      [op |-> "update", id |-> "1", val |-> [title |-> "new", _deleted |-> FALSE],
       val_keys |-> <<"title", "_deleted">>],
      [op |-> "set_fetched", id |-> "1", image_id |-> 0, fetched |-> TRUE],
      [op |-> "get", id |-> "1"],
      [op |-> "save"] }

NoCall == [op |-> "none"]

\* The keys of a record json.dumps has written when the model looks at it
\* half way through.
FirstKeys == {"id", "title", "create_time", "author_id", "author_name", "tags"}

\* A plausible slip: the operations do not wait for the lock.
CanAcquire_always(owner, t) == TRUE

\* A plausible slip: a plain Lock, which its own holder cannot take again.
CanAcquire_plain(owner, t) == owner = 0

\* threading.RLock: free, or held by the calling thread.
CanAcquire(owner, t) == owner \in {0, t}

\* Whether illust_id has image number image_id (from 0) in db.
HasImage(db, illust_id, image_id) ==
    /\ illust_id \in DOMAIN db
    /\ "images" \in DOMAIN db[illust_id]
    /\ image_id + 1 <= Len(db[illust_id]["images"])

\* The document after the call, run alone.
ApplyCall(call, db) ==
    CASE call.op = "update" -> update_dict(db, call.id, call.val)
      [] call.op = "set_fetched" ->
           IF HasImage(db, call.id, call.image_id)
           THEN set_illust_fetched(db, call.id, call.image_id, call.fetched)
           ELSE db
      [] OTHER -> db

\* The first statement of a call inside "with self.lock".
FirstStep(call) ==
    CASE call.op = "update" -> "u_check"
      [] call.op = "set_fetched" -> "f_nest"
      [] call.op = "get" -> "g_read"
      [] call.op = "save" -> "s_dump1"

InitLock ==
    /\ lk_data \in {EmptyDict,
                    "1" :> (("_deleted" :> FALSE) @@ extract_illust_data(RawIllust(1, 0)))}
    /\ lk_ghost = lk_data
    /\ lk_owner = 0 /\ lk_depth = 0
    /\ lk_pc = [t \in Threads |-> "idle"]
    /\ lk_op = [t \in Threads |-> NoCall]
    /\ lk_tmp = [t \in Threads |-> <<>>]
    /\ lk_file = <<>>
    /\ lk_hist = [calls |-> [t \in Threads |-> 0],
                  points |-> [t \in Threads |-> {}],
                  mixed |-> FALSE, misread |-> FALSE]
    /\ MainIdle /\ FilterIdle /\ StoreIdle /\ PoolIdle

lockRest == <<mainVars, filterVars, storeVars, poolVars>>

\* A thread calls an operation of the store.
LockCall(t, call) ==
    /\ lk_pc[t] = "idle" /\ lk_hist.calls[t] < MaxCalls
    /\ lk_op' = [lk_op EXCEPT ![t] = call]
    /\ lk_pc' = [lk_pc EXCEPT ![t] = "acquire"]
    /\ UNCHANGED <<lk_data, lk_owner, lk_depth, lk_tmp, lk_file, lk_ghost, lk_hist,
                   lockRest>>

\* "with self.lock": the thread waits until it can take the lock.  The
\* call takes its place in the serial order here.
LockAcquire(t) ==
    /\ lk_pc[t] = "acquire" /\ CanAcquire(lk_owner, t)
    /\ lk_owner' = t /\ lk_depth' = lk_depth + 1
    /\ lk_ghost' = ApplyCall(lk_op[t], lk_ghost)
    /\ lk_hist' = [lk_hist EXCEPT !.points =
          [u \in Threads |-> IF u = t THEN {lk_ghost, lk_ghost'}
                             ELSE lk_hist.points[u] \cup {lk_ghost'}]]
    /\ lk_pc' = [lk_pc EXCEPT ![t] = FirstStep(lk_op[t])]
    /\ UNCHANGED <<lk_data, lk_op, lk_tmp, lk_file, lockRest>>

\* _update_dict: "if id in self.data[coll]".
UpdateCheck(t) ==
    /\ lk_pc[t] = "u_check"
    /\ lk_tmp' = [lk_tmp EXCEPT ![t] = lk_op[t].val_keys]
    /\ lk_pc' = [lk_pc EXCEPT ![t] =
          IF lk_op[t].id \in DOMAIN lk_data THEN "u_merge" ELSE "u_insert"]
    /\ UNCHANGED <<lk_data, lk_owner, lk_depth, lk_op, lk_file, lk_ghost, lk_hist,
                   lockRest>>

\* _update_dict: "self.data[coll][id] = dict(val)".
UpdateInsert(t) ==
    /\ lk_pc[t] = "u_insert"
    /\ lk_data' = [id \in DOMAIN lk_data \cup {lk_op[t].id} |->
                      IF id = lk_op[t].id THEN lk_op[t].val ELSE lk_data[id]]
    /\ lk_pc' = [lk_pc EXCEPT ![t] = "release"]
    /\ UNCHANGED <<lk_owner, lk_depth, lk_op, lk_tmp, lk_file, lk_ghost, lk_hist,
                   lockRest>>

\* _update_dict: "self.data[coll][id].update(val)", one key at a time.
UpdateMerge(t) ==
    /\ lk_pc[t] = "u_merge"
    /\ LET k == Head(lk_tmp[t])
       IN lk_data' = [lk_data EXCEPT ![lk_op[t].id] = (k :> lk_op[t].val[k]) @@ @]
    /\ lk_tmp' = [lk_tmp EXCEPT ![t] = Tail(@)]
    /\ lk_pc' = [lk_pc EXCEPT ![t] = IF Tail(lk_tmp[t]) = <<>> THEN "release"
                                     ELSE "u_merge"]
    /\ UNCHANGED <<lk_owner, lk_depth, lk_op, lk_file, lk_ghost, lk_hist, lockRest>>

\* set_illust_fetched: self['illusts'] is __getitem__, which takes the
\* lock again ...
FetchedNest(t) ==
    /\ lk_pc[t] = "f_nest" /\ CanAcquire(lk_owner, t)
    /\ lk_owner' = t /\ lk_depth' = lk_depth + 1
    /\ lk_pc' = [lk_pc EXCEPT ![t] = "f_unnest"]
    /\ UNCHANGED <<lk_data, lk_op, lk_tmp, lk_file, lk_ghost, lk_hist, lockRest>>

\* ... and gives it back when it returns.
FetchedUnnest(t) ==
    /\ lk_pc[t] = "f_unnest"
    /\ lk_depth' = lk_depth - 1
    /\ lk_owner' = IF lk_depth' = 0 THEN 0 ELSE lk_owner
    /\ lk_pc' = [lk_pc EXCEPT ![t] = "f_write"]
    /\ UNCHANGED <<lk_data, lk_op, lk_tmp, lk_file, lk_ghost, lk_hist, lockRest>>

\* set_illust_fetched: "[illust_id]['images'][image_id]['fetched'] = fetched";
\* a KeyError or IndexError leaves the "with" block.
FetchedWrite(t) ==
    /\ lk_pc[t] = "f_write"
    /\ lk_data' = IF HasImage(lk_data, lk_op[t].id, lk_op[t].image_id)
                  THEN set_illust_fetched(lk_data, lk_op[t].id, lk_op[t].image_id,
                                          lk_op[t].fetched)
                  ELSE lk_data
    /\ lk_pc' = [lk_pc EXCEPT ![t] = "release"]
    /\ UNCHANGED <<lk_owner, lk_depth, lk_op, lk_tmp, lk_file, lk_ghost, lk_hist,
                   lockRest>>

\* _get_dict: "return self.data[coll].get(id, default)"; the result is kept
\* as <<>> or <<record>>.
GetRead(t) ==
    /\ lk_pc[t] = "g_read"
    /\ LET r == IF lk_op[t].id \in DOMAIN lk_data THEN <<lk_data[lk_op[t].id]>> ELSE <<>>
           serial == IF lk_op[t].id \in DOMAIN lk_ghost THEN <<lk_ghost[lk_op[t].id]>>
                     ELSE <<>>
       IN /\ lk_tmp' = [lk_tmp EXCEPT ![t] = r]
          /\ lk_hist' = [lk_hist EXCEPT !.misread = @ \/ r # serial]
    /\ lk_pc' = [lk_pc EXCEPT ![t] = "release"]
    /\ UNCHANGED <<lk_data, lk_owner, lk_depth, lk_op, lk_file, lk_ghost, lockRest>>

\* save: json.dumps(self.data) has written the first keys of every record ...
SaveDump1(t) ==
    /\ lk_pc[t] = "s_dump1"
    /\ lk_tmp' = [lk_tmp EXCEPT ![t] =
          [id \in DOMAIN lk_data |->
              [k \in DOMAIN lk_data[id] \cap FirstKeys |-> lk_data[id][k]]]]
    /\ lk_pc' = [lk_pc EXCEPT ![t] = "s_dump2"]
    /\ UNCHANGED <<lk_data, lk_owner, lk_depth, lk_op, lk_file, lk_ghost, lk_hist,
                   lockRest>>

\* ... and then the other keys.
SaveDump2(t) ==
    /\ lk_pc[t] = "s_dump2"
    /\ lk_tmp' = [lk_tmp EXCEPT ![t] =
          [id \in DOMAIN lk_tmp[t] |->
              lk_tmp[t][id] @@
              [k \in DOMAIN lk_data[id] \ FirstKeys |-> lk_data[id][k]]]]
    /\ lk_pc' = [lk_pc EXCEPT ![t] = "s_write"]
    /\ UNCHANGED <<lk_data, lk_owner, lk_depth, lk_op, lk_file, lk_ghost, lk_hist,
                   lockRest>>

\* save: the content is written to the store file (the rotation of the
\* backups is followed under SpecStore).
SaveContent(t) ==
    /\ lk_pc[t] = "s_write"
    /\ lk_file' = <<lk_tmp[t]>>
    /\ lk_hist' = [lk_hist EXCEPT !.mixed = @ \/ lk_tmp[t] \notin lk_hist.points[t]]
    /\ lk_pc' = [lk_pc EXCEPT ![t] = "release"]
    /\ UNCHANGED <<lk_data, lk_owner, lk_depth, lk_op, lk_tmp, lk_ghost, lockRest>>

\* The end of "with self.lock"; the call returns.
LockRelease(t) ==
    /\ lk_pc[t] = "release"
    /\ lk_depth' = lk_depth - 1
    /\ lk_owner' = IF lk_depth' = 0 THEN 0 ELSE lk_owner
    /\ lk_pc' = [lk_pc EXCEPT ![t] = "idle"]
    /\ lk_tmp' = [lk_tmp EXCEPT ![t] = <<>>]
    /\ lk_hist' = [lk_hist EXCEPT !.calls[t] = @ + 1]
    /\ UNCHANGED <<lk_data, lk_op, lk_file, lk_ghost, lockRest>>

NextLock ==
    \E t \in Threads :
        \/ \E call \in LockCalls : LockCall(t, call)
        \/ LockAcquire(t)
        \/ UpdateCheck(t)
        \/ UpdateInsert(t)
        \/ UpdateMerge(t)
        \/ FetchedNest(t)
        \/ FetchedUnnest(t)
        \/ FetchedWrite(t)
        \/ GetRead(t)
        \/ SaveDump1(t)
        \/ SaveDump2(t)
        \/ SaveContent(t)
        \/ LockRelease(t)

SpecLock == InitLock /\ [][NextLock]_vars

(***************************************************************************)
(* SpecPool: the worker pool of fetch_images, statement by statement.      *)
(* Thread 0 is the caller of pool.map, threads 1..NWorkers are the pool's  *)
(* workers.  pool.map hands the jobs out in list order, one at a time (the *)
(* chunk size is 1 for a list of at most 4 * n_workers jobs).  The job     *)
(* list is any list of p_njobs jobs; each download succeeds or raises.     *)
(***************************************************************************)

\* The longest job list.
MaxJobs == 3

Workers == 1..NWorkers

InitPool ==
    /\ p_njobs \in 0..MaxJobs
    /\ p_next = 1
    /\ p_pc = [w \in 0..NWorkers |-> IF w = 0 THEN "start" ELSE "idle"]
    /\ p_job = [w \in Workers |-> 0]
    /\ p_tmp = [w \in Workers |-> 0]
    /\ p_flock = 0 /\ p_slock = <<0, 0>>
    /\ p_counter = p_njobs
    /\ p_fetched = {}
    /\ p_hist = [attempts |-> [j \in 1..p_njobs |-> 0], failed |-> {}, ended |-> {}]
    /\ MainIdle /\ FilterIdle /\ StoreIdle /\ LockIdle

poolRest == <<mainVars, filterVars, storeVars, lockVars>>

\* "if image_jobs:" and ThreadPool(processes=n_workers), pool.map(...).
PoolStart ==
    /\ p_pc[0] = "start"
    /\ p_pc' = [p_pc EXCEPT ![0] = IF p_njobs = 0 THEN "done" ELSE "map"]
    /\ UNCHANGED <<p_njobs, p_next, p_job, p_tmp, p_flock, p_slock, p_counter,
                   p_fetched, p_hist, poolRest>>

\* An idle worker takes the next job of the list and calls f_download.
WorkerTake(w) ==
    /\ p_pc[0] = "map" /\ p_pc[w] = "idle" /\ p_next <= p_njobs
    /\ p_job' = [p_job EXCEPT ![w] = p_next]
    /\ p_next' = p_next + 1
    /\ p_pc' = [p_pc EXCEPT ![w] = "download"]
    /\ p_hist' = [p_hist EXCEPT !.attempts[p_next] = @ + 1]
    /\ UNCHANGED <<p_njobs, p_tmp, p_flock, p_slock, p_counter, p_fetched, poolRest>>

\* os.makedirs and api.download: they return, or one of them raises.
WorkerDownload(w, outcome) ==
    /\ p_pc[w] = "download"
    /\ p_pc' = [p_pc EXCEPT ![w] = IF outcome = "ok" THEN "f_lock" ELSE "cleanup"]
    /\ UNCHANGED <<p_njobs, p_next, p_job, p_tmp, p_flock, p_slock, p_counter,
                   p_fetched, p_hist, poolRest>>

\* A plausible slip: the lock is made anew in every call of f_download, so
\* no worker ever waits for it.
WorkerLock_unshared(w) ==
    /\ p_pc[w] = "f_lock"
    /\ p_flock' = w
    /\ p_pc' = [p_pc EXCEPT ![w] = "dec_read"]
    /\ UNCHANGED <<p_njobs, p_next, p_job, p_tmp, p_slock, p_counter, p_fetched,
                   p_hist, poolRest>>

\* "with f_lock:".
WorkerLock(w) ==
    /\ p_pc[w] = "f_lock" /\ CanAcquire(p_flock, w)
    /\ p_flock' = w
    /\ p_pc' = [p_pc EXCEPT ![w] = "dec_read"]
    /\ UNCHANGED <<p_njobs, p_next, p_job, p_tmp, p_slock, p_counter, p_fetched,
                   p_hist, poolRest>>

\* "counter[0] -= 1": the value is read ...
WorkerDecRead(w) ==
    /\ p_pc[w] = "dec_read"
    /\ p_tmp' = [p_tmp EXCEPT ![w] = p_counter]
    /\ p_pc' = [p_pc EXCEPT ![w] = "dec_write"]
    /\ UNCHANGED <<p_njobs, p_next, p_job, p_flock, p_slock, p_counter, p_fetched,
                   p_hist, poolRest>>

\* ... and written back, one less.
WorkerDecWrite(w) ==
    /\ p_pc[w] = "dec_write"
    /\ p_counter' = p_tmp[w] - 1
    /\ p_pc' = [p_pc EXCEPT ![w] = "s_lock"]
    /\ UNCHANGED <<p_njobs, p_next, p_job, p_tmp, p_flock, p_slock, p_fetched,
                   p_hist, poolRest>>

\* sync_db.set_illust_fetched: "with self.lock:", and again inside
\* __getitem__ for self['illusts'].
WorkerStoreAcquire(w) ==
    /\ p_pc[w] \in {"s_lock", "s_nest"} /\ CanAcquire(p_slock[1], w)
    /\ p_slock' = <<w, p_slock[2] + 1>>
    /\ p_pc' = [p_pc EXCEPT ![w] = IF p_pc[w] = "s_lock" THEN "s_nest" ELSE "s_unnest"]
    /\ UNCHANGED <<p_njobs, p_next, p_job, p_tmp, p_flock, p_counter, p_fetched,
                   p_hist, poolRest>>

\* The end of a "with self.lock:", of __getitem__ and of set_illust_fetched.
WorkerStoreRelease(w) ==
    /\ p_pc[w] \in {"s_unnest", "s_unlock"}
    /\ p_slock' = IF p_slock[2] = 1 THEN <<0, 0>> ELSE <<p_slock[1], p_slock[2] - 1>>
    /\ p_pc' = [p_pc EXCEPT ![w] = IF p_pc[w] = "s_unnest" THEN "s_write" ELSE "f_unlock"]
    /\ UNCHANGED <<p_njobs, p_next, p_job, p_tmp, p_flock, p_counter, p_fetched,
                   p_hist, poolRest>>

\* "[illust_id]['images'][image_id]['fetched'] = fetched".
WorkerStoreWrite(w) ==
    /\ p_pc[w] = "s_write"
    /\ p_fetched' = p_fetched \cup {p_job[w]}
    /\ p_pc' = [p_pc EXCEPT ![w] = "s_unlock"]
    /\ UNCHANGED <<p_njobs, p_next, p_job, p_tmp, p_flock, p_slock, p_counter,
                   p_hist, poolRest>>

\* The print, the end of "with f_lock:", and the return of f_download.
WorkerUnlock(w) ==
    /\ p_pc[w] = "f_unlock"
    /\ p_flock' = 0
    /\ p_hist' = [p_hist EXCEPT !.ended = @ \cup {p_job[w]}]
    /\ p_job' = [p_job EXCEPT ![w] = 0]
    /\ p_pc' = [p_pc EXCEPT ![w] = "idle"]
    /\ UNCHANGED <<p_njobs, p_next, p_tmp, p_slock, p_counter, p_fetched, poolRest>>

\* The "except:" branch: os.remove (its failure swallowed), the print, and
\* the return of f_download.
WorkerCleanup(w) ==
    /\ p_pc[w] = "cleanup"
    /\ p_hist' = [p_hist EXCEPT !.ended = @ \cup {p_job[w]},
                                !.failed = @ \cup {p_job[w]}]
    /\ p_job' = [p_job EXCEPT ![w] = 0]
    /\ p_pc' = [p_pc EXCEPT ![w] = "idle"]
    /\ UNCHANGED <<p_njobs, p_next, p_tmp, p_flock, p_slock, p_counter, p_fetched,
                   poolRest>>

\* pool.map returns when every job has returned; pool.close(), pool.join().
PoolJoin ==
    /\ p_pc[0] = "map"
    /\ p_hist.ended = 1..p_njobs
    /\ p_pc' = [p_pc EXCEPT ![0] = "done"]
    /\ UNCHANGED <<p_njobs, p_next, p_job, p_tmp, p_flock, p_slock, p_counter,
                   p_fetched, p_hist, poolRest>>

NextPool ==
    \/ PoolStart
    \/ PoolJoin
    \/ \E w \in Workers :
          \/ WorkerTake(w)
          \/ \E outcome \in {"ok", "raised"} : WorkerDownload(w, outcome)
          \/ WorkerLock(w)
          \/ WorkerDecRead(w)
          \/ WorkerDecWrite(w)
          \/ WorkerStoreAcquire(w)
          \/ WorkerStoreRelease(w)
          \/ WorkerStoreWrite(w)
          \/ WorkerUnlock(w)
          \/ WorkerCleanup(w)

\* The threads of the pool are scheduled by the operating system: as long
\* as some thread can take a step, a step is taken.
SpecPool == InitPool /\ [][NextPool]_vars /\ WF_vars(NextPool)

(***************************************************************************)
(* Properties of Spec                                                      *)
(***************************************************************************)

IsFetched(db, illust_id, image_id) ==
    Get(db[illust_id]["images"][image_id + 1], "fetched", FALSE)

\* The (illust id, image id) pairs of a job list.
JobPairs(jobs) == {<<jobs[j].illust_id, jobs[j].image_id>> : j \in 1..Len(jobs)}

\* A scheduler run has ended: pool.join() returned.
FetchEnded == pc = "exit" /\ image_jobs # <<>>

\* C1 as stated: every job that failed in a scheduler run leaves its image
\* unfetched, leaves no file at its destination path, and is in the job list
\* the next run builds from the store.
C1_ResumableAsStated ==
    FetchEnded =>
        \A j \in FailedJobs(job_state) :
            /\ ~ IsFetched(illusts, image_jobs[j].illust_id, image_jobs[j].image_id)
            /\ image_jobs[j].file_path \notin files
            /\ <<image_jobs[j].illust_id, image_jobs[j].image_id>>
                   \in JobPairs(BuildJobs(illusts, key_order))

\* C1, amended: every job that failed in a scheduler run leaves its image
\* unfetched and is in the job list the next run builds from the store; a
\* file is at its destination path after the run only if the os.remove of
\* its cleanup failed or another job of the run has the same destination.
C1_Resumable ==
    FetchEnded =>
        \A j \in FailedJobs(job_state) :
            /\ ~ IsFetched(illusts, image_jobs[j].illust_id, image_jobs[j].image_id)
            /\ <<image_jobs[j].illust_id, image_jobs[j].image_id>>
                   \in JobPairs(BuildJobs(illusts, key_order))
            /\ image_jobs[j].file_path \in files =>
                   \/ job_state[j] = "failed_left"
                   \/ \E k \in 1..Len(image_jobs) :
                         k # j /\ image_jobs[k].file_path = image_jobs[j].file_path

\* A run has ended in which one job failed and left no file while another
\* job of the run succeeded.
C1_Witness ==
    /\ FetchEnded
    /\ \E j, k \in 1..Len(image_jobs) :
          /\ job_state[j] = "failed" /\ image_jobs[j].file_path \notin files
          /\ job_state[k] = "done" /\ image_jobs[k].file_path \in files
          /\ image_jobs[k].file_path # image_jobs[j].file_path

\* The fields extract_illust_data fills.
ExtractedFields ==
    {"id", "title", "create_time", "author_id", "author_name", "tags", "width",
     "height", "images"}

\* The listing passes of update_list.
DiscoveryPcs == {"author_next", "author_page", "fav_next", "fav_page"}

\* C2: no step of the discovery passes removes a record or changes an
\* extracted field (the images and their fetched flags included) of a record
\* the store holds, whatever the listing returns for its id.
C2_Dedup ==
    [][(pc \in DiscoveryPcs) =>
          (\A id \in DOMAIN illusts :
              /\ id \in DOMAIN illusts'
              /\ \A k \in ExtractedFields \cap DOMAIN illusts[id] :
                    k \in DOMAIN illusts'[id] /\ illusts'[id][k] = illusts[id][k])
      ]_vars

\* The public bookmarks were listed from cursor 20 after the catalog changed:
\* illust 1 was returned with its new title, and its record kept the old one.
C2_Witness ==
    /\ pc = "fav_next" /\ fav_idx = 2 /\ token
    /\ opts.cmd = "sync" /\ opts.max_bookmark_id = <<20>>
    /\ config["favourites"][1] = "public"
    /\ hist.cur_sync_ok /\ remote_rev = 1
    /\ "1" \in DOMAIN db_file
    /\ illusts["1"]["title"] = "one"

\* C4 as stated: a re-filter pass under a configuration that has not changed
\* since the last one leaves the _deleted flag of every record as it is.
C4_RefilterStable ==
    [][(pc = "refilter" /\ pc' # "refilter" /\ ~ hist.cfg_changed) =>
          (\A id \in DOMAIN illusts :
              illusts'[id]["_deleted"] = illusts[id]["_deleted"])
      ]_vars

\* C5 as stated: when update_list ends in a configuration error
\* (ValueError), the document is the one the run started with.
C5_ConfigErrorNoMutation == exc = "ValueError" => illusts = db_file

\* The page the pending bookmark request returns.
PendingBookmarks ==
    UserBookmarksPage(config["favourites"][fav_idx], max_bookmark_id, remote_rev)

\* C6 as stated: when a bookmark page yields no new id, or carries no
\* next_url, or a next_url without a max_bookmark_id, no further request
\* follows for that favourite class.
C6_BookmarkStop ==
    [][(/\ pc = "fav_page" /\ remote_rev' = remote_rev
        /\ \/ \A i \in 1..Len(PendingBookmarks.illusts) :
                 IsKnown(illusts, ToString(PendingBookmarks.illusts[i]["id"]))
           \/ PendingBookmarks.next_url = NoUrl
           \/ ParseCursor(PendingBookmarks.next_url) = NoCursor)
       => pc' # "fav_page"]_vars

\* A remove command has run _remove_illust.
RemoveEnded == pc = "exit" /\ opts.cmd = "remove"

KnownArgs == {opts.illust_ids[k] : k \in 1..Len(opts.illust_ids)} \cap DOMAIN illusts

\* C7 as stated: after a removal every removed illust is _deleted, none of
\* its images is fetched, and its multi-image directory is gone.
C7_RemovalAsStated ==
    RemoveEnded =>
        \A id \in KnownArgs :
            /\ illusts[id]["_deleted"]
            /\ \A i \in 1..Len(illusts[id]["images"]) : ~ IsFetched(illusts, id, i - 1)
            /\ Len(illusts[id]["images"]) > 1 => IllustDir(illusts[id], id) \notin dirs

\* C7, amended: after a removal every removed illust is _deleted; an image
\* is still fetched only if the deletion of its file failed; the multi-image
\* directory is gone unless shutil.rmtree failed.  After a removal in which
\* no deletion failed, removing the same ids again changes neither the store
\* nor the disk, and the illusts are still _deleted.
C7_Removal ==
    /\ [](RemoveEnded =>
            \A id \in KnownArgs :
                /\ illusts[id]["_deleted"]
                /\ \A i \in 1..Len(illusts[id]["images"]) :
                      IsFetched(illusts, id, i - 1) =>
                          ImagePath(illusts[id], id, i) \in hist.rm_failed
                /\ (Len(illusts[id]["images"]) > 1 /\ IllustDir(illusts[id], id) \in dirs)
                      => IllustDir(illusts[id], id) \in hist.tree_failed)
    /\ [][(/\ pc = "idle" /\ pc' = "exit" /\ opts'.cmd = "remove"
           /\ opts'.illust_ids = hist.prev_remove)
          => (/\ illusts' = illusts /\ files' = files /\ dirs' = dirs
              /\ \A k \in 1..Len(hist.prev_remove) :
                    hist.prev_remove[k] \in DOMAIN illusts =>
                        illusts'[hist.prev_remove[k]]["_deleted"])
      ]_vars

\* Illust 2 (two images, its own directory) was removed twice in a row; the
\* first removal deleted a fetched image (the image has an explicit
\* fetched = False) and no deletion failed.
C7_Witness ==
    /\ RemoveEnded /\ opts.illust_ids = <<"2">> /\ hist.prev_remove = <<"2">>
    /\ "2" \in DOMAIN illusts
    /\ "fetched" \in DOMAIN illusts["2"]["images"][1]
    /\ ~ illusts["2"]["images"][1]["fetched"]
    /\ illusts["2"]["_deleted"]

\* C8: in a sync that directly follows a sync with the same arguments, with
\* the catalog and the configuration unchanged since the first started and
\* no remote request failing in either, update_list inserts no record: the
\* ids of the store are those the run started with.
C8_IdempotentResync ==
    (opts.cmd = "sync" /\ hist.prev_sync_ok /\ hist.cur_sync_ok) =>
        DOMAIN illusts = DOMAIN db_file

\* The second of two such runs has finished its listings, with records in
\* the store.
C8_Witness ==
    /\ opts.cmd = "sync" /\ hist.prev_sync_ok /\ hist.cur_sync_ok
    /\ pc = "refilter" /\ token
    /\ Cardinality(DOMAIN illusts) >= 2

\* The images that are to be fetched.
PendingImages ==
    {p \in UNION {{<<id, i - 1>> : i \in 1..Len(illusts[id]["images"])} : id \in DOMAIN illusts} :
        /\ ~ illusts[p[1]]["_deleted"]
        /\ ~ IsFetched(illusts, p[1], p[2])}

\* The destination of image number i (from 0) of an illust, as C9 states it.
StatedPath(id, i) ==
    <<"/dl", illusts[id]["author_name"]>>
    \o (IF Len(illusts[id]["images"]) > 1 THEN <<id>> ELSE <<>>)
    \o <<illusts[id]["images"][i + 1]["url"][Len(illusts[id]["images"][i + 1]["url"])]>>

\* fetch_images has built its job list and no job has started.
JobsBuilt ==
    \/ pc = "fetch_run" /\ \A j \in 1..Len(job_state) : job_state[j] = "queued"
    \/ pc = "exit" /\ opts.cmd = "sync" /\ ~ opts.list_only /\ exc = "none"
       /\ image_jobs = <<>>

\* C9: the job list holds exactly one job per image that is not fetched of
\* an illust that is not _deleted, each with the stated destination path,
\* and is sorted by destination path.
C9_JobList ==
    JobsBuilt =>
        /\ JobPairs(image_jobs) = PendingImages
        /\ Len(image_jobs) = Cardinality(PendingImages)
        /\ \A j \in 1..Len(image_jobs) :
              image_jobs[j].file_path = StatedPath(image_jobs[j].illust_id, image_jobs[j].image_id)
        /\ \A j \in 1..(Len(image_jobs) - 1) :
              ~ StrLess(PathString(image_jobs[j + 1].file_path),
                        PathString(image_jobs[j].file_path))

\* The run discovered three illusts, one of which the filter excluded, and
\* the jobs are those of the images of the two others.
C9_Witness ==
    /\ pc = "fetch_run" /\ \A j \in 1..Len(job_state) : job_state[j] = "queued"
    /\ db_file = EmptyDict
    /\ Cardinality(DOMAIN illusts) = 3
    /\ Cardinality({id \in DOMAIN illusts : illusts[id]["_deleted"]}) = 1
    /\ {image_jobs[j].illust_id : j \in 1..Len(image_jobs)}
          = {id \in DOMAIN illusts : ~ illusts[id]["_deleted"]}

\* The document db with image number image_id (from 0) of illust_id marked
\* fetched and nothing else changed.
MarkedFetched(db, illust_id, image_id) ==
    [id \in DOMAIN db |->
        IF id # illust_id THEN db[id]
        ELSE [k \in DOMAIN db[id] |->
                 IF k # "images" THEN db[id][k]
                 ELSE [i \in 1..Len(db[id]["images"]) |->
                          IF i # image_id + 1 THEN db[id]["images"][i]
                          ELSE [f \in DOMAIN db[id]["images"][i] \cup {"fetched"} |->
                                   IF f = "fetched" THEN TRUE
                                   ELSE db[id]["images"][i][f]]]]]

\* C11: during a scheduler run the store changes only in the completion
\* step of a job whose download returned successfully, and that step marks
\* exactly the job's (illust id, image index) fetched: no other flag and no
\* other field of the store changes.
C11_FetchedOnlyOnSuccess ==
    [][(pc = "fetch_run" /\ illusts' # illusts) =>
          (\E j \in 1..Len(image_jobs) :
              /\ job_state[j] = "downloaded" /\ job_state'[j] = "done"
              /\ \A k \in 1..Len(image_jobs) : k # j => job_state'[k] = job_state[k]
              /\ illusts' = MarkedFetched(illusts, image_jobs[j].illust_id,
                                          image_jobs[j].image_id)
              /\ key_order' = key_order)
      ]_vars

\* In a running pool the job of one image of an illust is done and the
\* image fetched, while the job of another image of the same illust failed
\* and that image is not fetched.
C11_Witness ==
    /\ pc = "fetch_run"
    /\ \E j, k \in 1..Len(image_jobs) :
          /\ image_jobs[j].illust_id = image_jobs[k].illust_id
          /\ job_state[j] = "done"
          /\ IsFetched(illusts, image_jobs[j].illust_id, image_jobs[j].image_id)
          /\ job_state[k] \in {"failed", "failed_left"}
          /\ ~ IsFetched(illusts, image_jobs[k].illust_id, image_jobs[k].image_id)

\* C12: no step removes a record from the store or a key from a record or
\* from one of its images; the updates of existing records (the re-filter
\* pass, a removal) keep the value of every key but _deleted and the
\* images' fetched flags.
C12_NeverDeleted ==
    [][\A id \in DOMAIN illusts :
          /\ id \in DOMAIN illusts'
          /\ DOMAIN illusts[id] \subseteq DOMAIN illusts'[id]
          /\ \A k \in DOMAIN illusts[id] \ {"_deleted", "images"} :
                illusts'[id][k] = illusts[id][k]
          /\ Len(illusts'[id]["images"]) = Len(illusts[id]["images"])
          /\ \A i \in 1..Len(illusts[id]["images"]) :
                /\ DOMAIN illusts[id]["images"][i] \subseteq DOMAIN illusts'[id]["images"][i]
                /\ illusts'[id]["images"][i]["url"] = illusts[id]["images"][i]["url"]
      ]_vars

\* A removal has updated the record of illust 2, which was not _deleted
\* and had a fetched image: the record is _deleted and has all its keys.
C12_Witness ==
    /\ RemoveEnded /\ "2" \in KnownArgs
    /\ ~ db_file["2"]["_deleted"] /\ IsFetched(db_file, "2", 0)
    /\ illusts["2"]["_deleted"]
    /\ DOMAIN illusts["2"] = DOMAIN db_file["2"]
    /\ ExtractedFields \subseteq DOMAIN illusts["2"]

\* C15: a step taken while an author's pages are listed, a failing request
\* included, raises nothing out of update_list, keeps every stored record
\* as it is, and either stays with this author or moves on to the next
\* one; and the bookmark listing and the re-filter pass are only reached
\* with every configured author visited.
C15_AuthorIsolation ==
    /\ [](pc \in {"fav_next", "fav_page", "refilter"} =>
            author_idx = Len(Get(config, "authors", <<>>)) + 1)
    /\ [][(pc = "author_page") =>
            (/\ pc' \in {"author_page", "author_next"}
             /\ exc' = "none"
             /\ \A id \in DOMAIN illusts :
                   id \in DOMAIN illusts' /\ illusts'[id] = illusts[id]
             /\ (pc' = "author_next") => (author_idx' = author_idx + 1))
       ]_vars

\* The first command is a sync in which the listing of author 1 failed on
\* its first page: author 2's illust was stored first, the bookmarked
\* illusts of author 1 after it, and the re-filter pass is about to run.
C15_Witness ==
    /\ pc = "refilter" /\ runs = 1 /\ remote_rev = 0 /\ token
    /\ key_order = <<"3", "2", "1">>

\* The ids of the items the provider lists for an author and on which
\* extract_illust_data does not raise.
Extractable(author_id, rev) ==
    LET all == AuthorListing(author_id, rev)
    IN {ToString(all[k]) : k \in {i \in 1..Len(all) : ~ ExtractRaises(RawIllust(all[i], rev))}}

\* C16 as stated: when discovery has gone through the listings with no
\* failing request and an unchanged catalog, every item of a configured
\* author's listing that can be extracted has a record, also when the
\* extraction of another item of that listing failed.
C16_ExtractionIsolated ==
    (pc = "refilter" /\ hist.cur_sync_ok) =>
        \A a \in 1..Len(Get(config, "authors", <<>>)) :
            Extractable(MatchAuthorId(config["authors"][a]), remote_rev)
                \subseteq DOMAIN illusts

\* C18 as stated: when the listing of an author ends, with no failing
\* request and an unchanged catalog, every item the provider lists for
\* that author (and that can be extracted at all) has a record.
C18_AuthorListingComplete ==
    [][(pc = "author_page" /\ pc' = "author_next" /\ hist'.cur_sync_ok) =>
          (Extractable(MatchAuthorId(config["authors"][author_idx]), remote_rev)
              \subseteq DOMAIN illusts')
      ]_vars

\* The illusts of a favourite class's bookmark listing from the cursor on.
BookmarkedFrom(fav, cursor, rev) ==
    LET all == BookmarkListing(fav, rev)
    IN {ToString(all[k][2]) :
          k \in {i \in 1..Len(all) : cursor = NoCursor \/ all[i][1] <= cursor[1]}}

\* The ids on a page of raw items.
PageIds(page) == {ToString(page[i]["id"]) : i \in 1..Len(page)}

\* update_list has gone through the bookmark listings of an authenticated
\* caller with no failing request and an unchanged catalog.
BookmarksListed == pc = "refilter" /\ token /\ hist.cur_sync_ok

\* C19 as stated: after such a run every illust of the bookmark listing of
\* each configured favourite class, from the starting cursor on, has a
\* record, whatever the store held before.
C19_CompleteAsStated ==
    BookmarksListed =>
        \A f \in 1..Len(Get(config, "favourites", <<>>)) :
            BookmarkedFrom(config["favourites"][f], opts.max_bookmark_id, remote_rev)
                \subseteq DOMAIN illusts

\* C19, amended: every illust on a bookmark page the run has requested and
\* gone through has a record; a further page is requested only after a
\* page with an id new to the store, at the cursor of its next link; and
\* after the run every illust on the first page of each configured class,
\* from the starting cursor, has a record.
C19_RequestedPagesComplete ==
    /\ [](BookmarksListed =>
            \A f \in 1..Len(Get(config, "favourites", <<>>)) :
                PageIds(UserBookmarksPage(config["favourites"][f], opts.max_bookmark_id,
                                          remote_rev).illusts) \subseteq DOMAIN illusts)
    /\ [][(pc = "fav_page" /\ remote_rev' = remote_rev /\ exc' = "none") =>
            (/\ PageIds(PendingBookmarks.illusts) \subseteq DOMAIN illusts'
             /\ (pc' = "fav_page" /\ max_bookmark_id' # max_bookmark_id) =>
                   (/\ ~ (PageIds(PendingBookmarks.illusts) \subseteq DOMAIN illusts)
                    /\ max_bookmark_id' = ParseCursor(PendingBookmarks.next_url)))
       ]_vars

\* A sync of an authenticated caller that went through two pages of the
\* public bookmarks (the changed catalog lists three) and is about to
\* re-filter.
C19_Witness ==
    /\ BookmarksListed /\ remote_rev = 1 /\ runs = 1
    /\ "public" \in {config["favourites"][f] : f \in 1..Len(Get(config, "favourites", <<>>))}
    /\ opts.max_bookmark_id = NoCursor
    /\ {"1", "2", "3"} \subseteq DOMAIN illusts

\* C20 as stated: at the end of a scheduler run, every image that had a
\* job in the run and whose fetched flag is true has its file at the job's
\* destination path.
C20_CreditedFilePresent ==
    FetchEnded =>
        \A j \in 1..Len(image_jobs) :
            IsFetched(illusts, image_jobs[j].illust_id, image_jobs[j].image_id) =>
                image_jobs[j].file_path \in files

(***************************************************************************)
(* Properties of SpecLock                                                  *)
(***************************************************************************)

\* C13: whenever no thread holds the lock, the document is the one the
\* calls give when run one at a time in the order they took the lock (no
\* merged key and no fetched flag is lost); every get returned the record
\* of that serial document; and every save wrote the serial document of
\* one point between two calls.
C13_Serializable ==
    /\ lk_owner = 0 => lk_data = lk_ghost
    /\ ~ lk_hist.misread
    /\ ~ lk_hist.mixed

\* Both threads have made their calls, a save among them wrote a document
\* with an illust whose title was merged in and whose image was marked
\* fetched by different calls.
C13_Witness ==
    /\ \A t \in Threads : lk_hist.calls[t] = MaxCalls
    /\ lk_file # <<>> /\ "1" \in DOMAIN lk_data
    /\ "title" \in DOMAIN lk_data["1"] /\ lk_data["1"]["title"] = "new"
    /\ HasImage(lk_data, "1", 0) /\ IsFetched(lk_data, "1", 0)

(***************************************************************************)
(* Properties of SpecPool                                                  *)
(***************************************************************************)

\* The workers that are inside f_download.
InProgress == {w \in Workers : p_pc[w] # "idle"}

\* C17: the scheduler run ends for every job list and every pattern of
\* successes and failures; no job is attempted twice, and at the end every
\* job has been attempted once, the failed ones included; at most
\* n_workers jobs are in progress, each with another worker.
C17_RunTerminates ==
    /\ <>(p_pc[0] = "done")
    /\ [](\A j \in 1..p_njobs : p_hist.attempts[j] <= 1)
    /\ [](p_pc[0] = "done" =>
            /\ \A j \in 1..p_njobs : p_hist.attempts[j] = 1
            /\ p_hist.ended = 1..p_njobs
            /\ p_fetched = (1..p_njobs) \ p_hist.failed
            /\ p_counter = Cardinality(p_hist.failed))
    /\ [](/\ Cardinality(InProgress) <= NWorkers
          /\ \A v, w \in InProgress : p_job[v] = p_job[w] => v = w)

\* A run over the longest job list has ended, with the first job failed
\* and the jobs after it fetched.
C17_Witness ==
    /\ p_pc[0] = "done" /\ p_njobs = MaxJobs
    /\ p_hist.failed = {1} /\ p_fetched = 2..MaxJobs

\* The jobs whose decrement is written and whose flag is not yet.
Decremented ==
    {p_job[w] : w \in {v \in Workers : p_pc[v] \in {"s_lock", "s_nest", "s_unnest", "s_write"}}}

\* C21: the counter starts at the number of jobs; it changes only by one
\* decrement, made by the worker that holds f_lock for a job not yet
\* marked, and that worker marks its job before it gives the lock back, so
\* whenever f_lock is free the counter is the number of unmarked jobs; at
\* the end of the run it is the number of jobs still not fetched.
C21_CounterExact ==
    /\ [](p_pc[0] = "start" => p_counter = p_njobs)
    /\ [](p_counter = p_njobs - Cardinality(p_fetched \cup Decremented))
    /\ [](p_flock = 0 => p_counter = Cardinality((1..p_njobs) \ p_fetched))
    /\ [](p_pc[0] = "done" => p_counter = Cardinality((1..p_njobs) \ p_fetched))
    /\ [][(p_counter' # p_counter) =>
            (/\ p_counter' = p_counter - 1
             /\ p_flock \in Workers /\ p_flock' = p_flock
             /\ p_pc[p_flock] = "dec_write"
             /\ p_job[p_flock] \notin p_fetched \cup Decremented)
       ]_vars
    /\ [][(p_fetched' # p_fetched) =>
            (/\ p_flock \in Workers /\ p_flock' = p_flock
             /\ p_fetched' = p_fetched \cup {p_job[p_flock]}
             /\ p_job[p_flock] \notin p_fetched
             /\ p_counter' = p_counter)
       ]_vars

\* One job has been counted and marked, a worker holds f_lock between the
\* read and the write of the counter, and another worker, its download
\* done, waits for the lock.
C21_Witness ==
    /\ p_fetched # {} /\ p_counter = p_njobs - 1
    /\ \E v, w \in Workers : p_pc[v] = "dec_write" /\ p_pc[w] = "f_lock"

(***************************************************************************)
(* Properties of SpecStore                                                 *)
(***************************************************************************)

\* The k greatest of a set of backup names.
MostRecent(names, k) ==
    LET sorted == SortNames(names)
    IN {sorted[i] : i \in {i \in 1..Len(sorted) : i > Len(sorted) - k}}

\* C3 as stated: starting from no file, after N saves that were all given
\* the same max_backup = k < N and took distinct timestamps, exactly k
\* backups remain, and they are the k most recent ever created.
C3_BackupRotation ==
    (/\ save_pc = "idle" /\ save_hist.distinct
     /\ \E k \in 0..MaxK : save_hist.ks = {k} /\ k < save_hist.count)
    => \A k \in save_hist.ks :
          /\ Cardinality(DOMAIN store_backups) = k
          /\ DOMAIN store_backups = MostRecent(save_hist.created, k)

\* C14 as stated: at every point between the steps of a save() that was
\* given max_backup >= 1, the document the previous save() wrote is on
\* disk, at the store's path or as the content of a backup file.
C14_CrashSafe ==
    (save_pc # "idle" /\ save_arg >= 1 /\ save_hist.saved # <<>>) =>
        \/ store_file = save_hist.saved
        \/ \E n \in DOMAIN store_backups : store_backups[n] = save_hist.saved[1]

(***************************************************************************)
(* Properties of SpecFilter                                                *)
(***************************************************************************)

\* The values of an illust a rule on key k is matched against.
FactsOf(illust, k) ==
    IF k = "authors"
    THEN {illust[f] : f \in {"author_id", "author_name"} \cap DOMAIN illust}
    ELSE IF "tags" \in DOMAIN illust
         THEN UNION {{illust["tags"][i][f] : f \in {"name", "translation"}
                                                 \cap DOMAIN illust["tags"][i]} :
                     i \in 1..Len(illust["tags"])}
         ELSE {}

\* The keys among 'authors' and 'tags' for which cfg[kind] has a rule.
Configured(cfg, kind) ==
    IF kind \in DOMAIN cfg THEN {"authors", "tags"} \cap DOMAIN cfg[kind] ELSE {}

\* C10: is_illust_excluded returns true iff an include rule is configured
\* for 'authors' or 'tags' and no configured include set meets the item's
\* values, or some configured exclude set meets the item's values; so an
\* item that passes an include rule and matches an exclude rule is
\* excluded; and the call changes neither the config nor the item.
C10_FilterRule ==
    /\ [](f_result # <<>> =>
            /\ f_result[1] =
                 (\/ /\ Configured(f_config, "includes") # {}
                     /\ \A k \in Configured(f_config, "includes") :
                           f_config["includes"][k] \cap FactsOf(f_illust, k) = {}
                  \/ \E k \in Configured(f_config, "excludes") :
                        f_config["excludes"][k] \cap FactsOf(f_illust, k) # {})
            /\ (/\ \E k \in Configured(f_config, "includes") :
                      f_config["includes"][k] \cap FactsOf(f_illust, k) # {}
                /\ \E k \in Configured(f_config, "excludes") :
                      f_config["excludes"][k] \cap FactsOf(f_illust, k) # {})
               => f_result[1])
    /\ [][f_config' = f_config /\ f_illust' = f_illust]_vars

\* The call returned true for an item whose tag passes the include rule
\* and whose author matches the exclude rule.
C10_Witness ==
    /\ f_result = <<TRUE>>
    /\ "tags" \in Configured(f_config, "includes")
    /\ f_config["includes"]["tags"] \cap FactsOf(f_illust, "tags") # {}
    /\ "authors" \in Configured(f_config, "excludes")
    /\ f_config["excludes"]["authors"] \cap FactsOf(f_illust, "authors") # {}

====
